---------------------------- MODULE Spec2Model ----------------------------
(***************************************************************************)
(* Model of the Sweetshark per-window audio capture sidecar                *)
(* (src/sidecar/src/main.rs, Windows build): the dispatcher (main), the    *)
(* capture worker of each session, the text frame writer and the binary    *)
(* egress acceptor, with the Frame Queue, the binary-stream slot and the   *)
(* outbound channels they share.                                           *)
(*                                                                         *)
(* Strings the code parses or formats are sequences of one-character       *)
(* strings; Option<T> is the empty sequence (None) or <<x>> (Some(x)).     *)
(* A critical section under one mutex is one step.                         *)
(***************************************************************************)
EXTENDS Integers, Sequences, FiniteSets, TLC

(* ------------------------------ bounds -------------------------------- *)

\* sessions minted per run (Uuid::new_v4 is modelled by a fresh number)
MaxSessions == 2
\* frames the sessions of a run may dispatch, all together
MaxFrames == 2
\* requests the dispatcher reads before end of input
MaxRequests == 2
\* connections the binary acceptor accepts
MaxConns == 1
\* capacity given to FrameQueue::new in the sidecar model (main passes 100;
\* the queue is parametric in it and the model scales it down)
QueueCapacity == 1
\* SpecQueue: capacities 1..MaxCapacity beside the one main passes
MaxCapacity == 2
\* SpecQueue: push_line calls beyond the capacity
MaxExtraPushes == 2
\* SpecReframe: packets one session receives
MaxPackets == 3
\* SpecThreads: requests read, and frames one session dispatches
MaxThreadRequests == 2
MaxThreadFrames == 1
\* SpecStart: sessions started
MaxStartSessions == 1
\* SpecReconnect: connections the acceptor takes, and sessions started
MaxReconnects == 2
MaxReconnectSessions == 1
\* SpecConsumers: threads that call pop_line
MaxConsumers == 2
\* SpecPure: window entries given to dedupe_window_entries_by_pid
MaxEntries == 3

(* ------------------------- program constants -------------------------- *)

TARGET_SAMPLE_RATE == 48000
TARGET_CHANNELS == 1
FRAME_SIZE == 960
PROTOCOL_VERSION == 1
PCM_ENCODING == "f32le_base64"
\* FrameQueue::new(100) in main
MAIN_QUEUE_CAPACITY == 100
\* size_of::<f32>()
F32_BYTES == 4

(* ------------------------------ Option -------------------------------- *)

None == <<>>
Some(x) == <<x>>
IsSome(o) == Len(o) = 1
Unwrap(o) == o[1]

(* ------------------------------ strings ------------------------------- *)

DigitChars == <<"0", "1", "2", "3", "4", "5", "6", "7", "8", "9">>
IsDigit(c) == \E i \in 1..10 : DigitChars[i] = c
DigitVal(c) == (CHOOSE i \in 1..10 : DigitChars[i] = c) - 1

\* Display of an unsigned integer ({pid} in format!)
RECURSIVE fmt_u32(_)
fmt_u32(n) == IF n < 10 THEN <<DigitChars[n + 1]>>
              ELSE fmt_u32(n \div 10) \o <<DigitChars[(n % 10) + 1]>>

RECURSIVE DigitsValue(_)
DigitsValue(ds) == IF ds = <<>> THEN 0
                   ELSE 10 * DigitsValue(SubSeq(ds, 1, Len(ds) - 1)) + DigitVal(ds[Len(ds)])

RECURSIVE StripLeadingZeros(_)
StripLeadingZeros(ds) == IF Len(ds) > 1 /\ ds[1] = "0" THEN StripLeadingZeros(Tail(ds)) ELSE ds

\* u32::MAX = 4294967295, as decimal digits
U32_MAX_DIGITS == <<"4", "2", "9", "4", "9", "6", "7", "2", "9", "5">>

RECURSIVE DigitsLeq(_, _)
\* ds <= es for two digit strings of the same length
DigitsLeq(ds, es) == IF ds = <<>> THEN TRUE
                     ELSE IF DigitVal(ds[1]) < DigitVal(es[1]) THEN TRUE
                     ELSE IF DigitVal(ds[1]) > DigitVal(es[1]) THEN FALSE
                     ELSE DigitsLeq(Tail(ds), Tail(es))

FitsU32(ds) == LET z == StripLeadingZeros(ds) IN
               \/ Len(z) < Len(U32_MAX_DIGITS)
               \/ Len(z) = Len(U32_MAX_DIGITS) /\ DigitsLeq(z, U32_MAX_DIGITS)

\* str::parse::<u32>: an optional '+', then at least one digit, digits only,
\* value at most u32::MAX
parse_u32(raw) ==
    LET ds == IF raw # <<>> /\ raw[1] = "+" THEN Tail(raw) ELSE raw IN
    IF ds # <<>> /\ (\A i \in 1..Len(ds) : IsDigit(ds[i])) /\ FitsU32(ds)
    THEN Some(DigitsValue(ds)) ELSE None

\* str::parse::<isize>: an optional sign, then at least one digit. Integers
\* here have 32 bits, isize has 64: numbers of more than 9 digits are outside
\* the inputs, and read as none.
parse_isize(raw) ==
    LET signed == raw # <<>> /\ raw[1] \in {"+", "-"}
        ds == IF signed THEN Tail(raw) ELSE raw IN
    IF ds # <<>> /\ (\A i \in 1..Len(ds) : IsDigit(ds[i])) /\ Len(StripLeadingZeros(ds)) <= 9
    THEN Some(IF signed /\ raw[1] = "-" THEN 0 - DigitsValue(ds) ELSE DigitsValue(ds))
    ELSE None

StartsWith(s, p) == Len(s) >= Len(p) /\ SubSeq(s, 1, Len(p)) = p

\* str::strip_prefix
strip_prefix(s, p) == IF StartsWith(s, p) THEN Some(SubSeq(s, Len(p) + 1, Len(s))) ELSE None

\* the first field of s.split(':')
FirstField(s) ==
    IF \E i \in 1..Len(s) : s[i] = ":"
    THEN SubSeq(s, 1, (CHOOSE i \in 1..Len(s) : s[i] = ":" /\ \A j \in 1..(i - 1) : s[j] # ":") - 1)
    ELSE s

\* what split(':') still has after its first field: None when there was no colon
AfterFirstField(s) ==
    IF \E i \in 1..Len(s) : s[i] = ":"
    THEN Some(SubSeq(s, Len(FirstField(s)) + 2, Len(s)))
    ELSE None

PID_PREFIX == <<"p", "i", "d", ":">>
EXCL_PREFIX == <<"e", "x", "c", "l", ":">>
WINDOW == <<"w", "i", "n", "d", "o", "w">>

\* parse_target_pid parsing the whole string when the prefix is missing
parse_target_pid_any(target_id) ==
    LET raw == strip_prefix(target_id, PID_PREFIX) IN
    IF IsSome(raw) THEN parse_u32(Unwrap(raw)) ELSE parse_u32(target_id)

parse_target_pid(target_id) ==
    LET raw == strip_prefix(target_id, PID_PREFIX) IN
    IF IsSome(raw) THEN parse_u32(Unwrap(raw)) ELSE None

\* parse_window_source_id testing the start of the string instead of its first field
parse_window_source_id_starts(source_id) ==
    IF ~StartsWith(source_id, WINDOW) THEN None
    ELSE LET rest == AfterFirstField(source_id) IN
         IF IsSome(rest) THEN parse_isize(FirstField(Unwrap(rest))) ELSE None

parse_window_source_id(source_id) ==
    IF FirstField(source_id) # WINDOW THEN None
    ELSE LET rest == AfterFirstField(source_id) IN
         IF IsSome(rest) THEN parse_isize(FirstField(Unwrap(rest))) ELSE None

\* HashMap::entry(pid).or_insert(title): m is a function from the keys to the values
or_insert(m, pid, title) ==
    IF pid \in DOMAIN m THEN m
    ELSE [p \in DOMAIN m \cup {pid} |-> IF p = pid THEN title ELSE m[p]]

\* HashMap::insert(pid, title)
insert(m, pid, title) ==
    [p \in DOMAIN m \cup {pid} |-> IF p = pid THEN title ELSE m[p]]

RECURSIVE dedupe_loop_last(_, _)
\* the loop with insert for entry().or_insert
dedupe_loop_last(deduped, entries) ==
    IF entries = <<>> THEN deduped
    ELSE dedupe_loop_last(insert(deduped, Head(entries).pid, Head(entries).title), Tail(entries))

RECURSIVE dedupe_loop(_, _)
\* the for loop of dedupe_window_entries_by_pid over what is left of entries
dedupe_loop(deduped, entries) ==
    IF entries = <<>> THEN deduped
    ELSE dedupe_loop(or_insert(deduped, Head(entries).pid, Head(entries).title), Tail(entries))

\* HashMap::new()
EmptyMap == [p \in {} |-> <<>>]

dedupe_window_entries_by_pid(entries) == dedupe_loop(EmptyMap, entries)

(* ---------------------------- Frame Queue ----------------------------- *)

\* FrameQueueState::default()
FrameQueueState_default == [queue |-> <<>>, closed |-> FALSE]

\* push_line with the capacity test off by one (> for >=)
push_line_off_by_one(st, cap, line) ==
    IF st.closed THEN st
    ELSE LET kept == IF Len(st.queue) > cap THEN Tail(st.queue) ELSE st.queue IN
         [st EXCEPT !.queue = Append(kept, line)]

\* push_line without the test of closed
push_line_ignore_closed(st, cap, line) ==
    LET kept == IF Len(st.queue) >= cap THEN Tail(st.queue) ELSE st.queue IN
    [st EXCEPT !.queue = Append(kept, line)]

\* FrameQueue::push_line: the state after pushing line on a queue of capacity cap
push_line(st, cap, line) ==
    IF st.closed THEN st
    ELSE LET kept == IF Len(st.queue) >= cap THEN Tail(st.queue) ELSE st.queue IN
         [st EXCEPT !.queue = Append(kept, line)]

\* FrameQueue::pop_line returns (instead of waiting on the condvar) when a line
\* is queued or the queue is closed
pop_line_returns(st) == st.queue # <<>> \/ st.closed

\* pop_line reading the front of the queue without removing it (front for pop_front)
pop_line_state_front(st) == st

\* pop_line testing closed before it looks at the queue
pop_line_value_closed_first(st) ==
    IF st.closed THEN None ELSE IF st.queue # <<>> THEN Some(Head(st.queue)) ELSE None

\* the value pop_line returns then, and the state it leaves
pop_line_value(st) == IF st.queue # <<>> THEN Some(Head(st.queue)) ELSE None
pop_line_state(st) == IF st.queue # <<>> THEN [st EXCEPT !.queue = Tail(st.queue)] ELSE st

\* close throwing away the lines still queued
close_drops(st) == [st EXCEPT !.closed = TRUE, !.queue = <<>>]

\* FrameQueue::close
close(st) == [st EXCEPT !.closed = TRUE]

(* ----------------------------- messages ------------------------------- *)

\* BASE64.encode of n bytes: the length of the text and its '=' padding
base64_encode(n) == [len |-> 4 * ((n + 2) \div 3), pad |-> (3 - (n % 3)) % 3]
\* the bytes a base64 text decodes to
base64_decoded_len(b) == (b.len \div 4) * 3 - b.pad

\* the line enqueue_frame_event serialises
frame_event(session_id, target_id, sequence, sample_rate, frame_count, pcm_base64) ==
    [kind |-> "frame", chan |-> "text", sessionId |-> session_id, targetId |-> target_id,
     sequence |-> sequence, sampleRate |-> sample_rate, channels |-> TARGET_CHANNELS,
     frameCount |-> frame_count, pcmBase64 |-> pcm_base64,
     protocolVersion |-> PROTOCOL_VERSION, encoding |-> PCM_ENCODING]

\* the packet try_write_app_audio_binary_frame builds; conn is the connection
\* it is written to
binary_packet(conn, session_id, target_id, sequence, sample_rate, channels, frame_count, protocol_version, n_samples) ==
    [kind |-> "frame", chan |-> "binary", conn |-> conn, sessionId |-> session_id,
     targetId |-> target_id, sequence |-> sequence, sampleRate |-> sample_rate,
     channels |-> channels, frameCount |-> frame_count,
     protocolVersion |-> protocol_version, pcmBytes |-> n_samples * F32_BYTES]

\* CaptureEndReason::as_str
CaptureStopped == "capture_stopped"
AppExited == "app_exited"
CaptureError == "capture_error"
DeviceLost == "device_lost"
CaptureEndReasons == {CaptureStopped, AppExited, CaptureError, DeviceLost}

\* CaptureOutcome::from_reason and CaptureOutcome::capture_error
from_reason(reason) == [reason |-> reason, error |-> None]
capture_error(e) == [reason |-> CaptureError, error |-> Some(e)]

\* the audio_capture.ended event start_capture_thread writes
ended_event(session_id, target_id, outcome) ==
    [kind |-> "ended", chan |-> "text", sessionId |-> session_id, targetId |-> target_id,
     reason |-> outcome.reason, error |-> outcome.error,
     protocolVersion |-> PROTOCOL_VERSION]

\* write_response: result is [ok, ...]; request and stopped are not on the
\* wire, they record which request the response answers and which session
\* its audio_capture.stop or audio_capture.start stopped (0: none)
response(request, result, stopped) ==
    [kind |-> "response", chan |-> "text", ok |-> result.ok, result |-> result,
     method |-> request.method, request |-> request.n, stopped |-> stopped]

Ok(v) == [ok |-> TRUE, value |-> v]
Err(message) == [ok |-> FALSE, message |-> message]

(* --------------------------- binary egress ---------------------------- *)

MAX_APP_AUDIO_BINARY_FRAME_BYTES == 4194304
U16_MAX == 65535
\* Uuid::new_v4().to_string(): 32 hex digits and 4 hyphens
UUID_STRING_LEN == 36

\* the payload_len try_write_app_audio_binary_frame computes
binary_payload_len(session_id_len, target_id_len, n_samples) ==
    2 + session_id_len + 2 + target_id_len + 8 + 4 + 2 + 4 + 4 + 4 + 4 + n_samples * F32_BYTES

\* the tests before the packet is built, without the one on the payload length
binary_frame_refused_no_limit(session_id_len, target_id_len, sample_rate, channels, frame_count, n_samples) ==
    \/ session_id_len = 0 \/ session_id_len > U16_MAX
    \/ target_id_len = 0 \/ target_id_len > U16_MAX
    \/ sample_rate = 0 \/ channels = 0 \/ frame_count = 0
    \/ n_samples = 0

\* try_write_app_audio_binary_frame returns false before it touches the slot
binary_frame_refused(session_id_len, target_id_len, sample_rate, channels, frame_count, n_samples) ==
    \/ session_id_len = 0 \/ session_id_len > U16_MAX
    \/ target_id_len = 0 \/ target_id_len > U16_MAX
    \/ sample_rate = 0 \/ channels = 0 \/ frame_count = 0
    \/ n_samples = 0
    \/ binary_payload_len(session_id_len, target_id_len, n_samples) > MAX_APP_AUDIO_BINARY_FRAME_BYTES

\* try_write_app_audio_binary_frame: conn is the connection in the slot
\* (0: None), write_all what the stream's write_all does ([ok, bytes]: whether
\* it succeeds, and the bytes the stream took before it failed). It returns
\* [wrote, bytes, slot]: its result, the bytes written to the stream and the
\* slot it leaves.
try_write_app_audio_binary_frame(conn, session_id_len, target_id_len, sample_rate, channels, frame_count, n_samples, write_all) ==
    IF binary_frame_refused(session_id_len, target_id_len, sample_rate, channels, frame_count, n_samples)
    THEN [wrote |-> FALSE, bytes |-> 0, slot |-> conn]
    ELSE IF conn = 0
    THEN [wrote |-> FALSE, bytes |-> 0, slot |-> conn]
    ELSE IF write_all.ok
    THEN [wrote |-> TRUE, bytes |-> 4 + binary_payload_len(session_id_len, target_id_len, n_samples), slot |-> conn]
    ELSE [wrote |-> FALSE, bytes |-> write_all.bytes, slot |-> 0]

(* -------------------------- session control --------------------------- *)

\* stop_capture_session ignoring the session id the request names
should_stop_always(requested_session_id, active_session_id) == TRUE

\* stop_capture_session: whether the active session is the one to stop
should_stop(requested_session_id, active_session_id) ==
    IF IsSome(requested_session_id) THEN Unwrap(requested_session_id) = active_session_id
    ELSE TRUE

\* resolve_source_to_pid; win is what the OS says of the window handle:
\* [is_window, pid]
resolve_source_to_pid(source_id, win) ==
    IF parse_window_source_id(source_id) = None THEN None
    ELSE IF ~win.is_window THEN None
    ELSE IF win.pid = 0 THEN None ELSE Some(win.pid)

\* AudioTarget.id of the targets get_audio_targets lists, pids being the
\* processes that own a visible titled window
audio_target_ids(pids) == {PID_PREFIX \o fmt_u32(pid) : pid \in pids}

\* error messages, as the parts format! joins
MSG_NO_TARGET == <<"No app audio target provided and source mapping failed">>
MSG_INVALID_TARGET == <<"Invalid app audio target id">>
MSG_NOT_AVAILABLE(target_pid) == <<"Target process with pid ", target_pid, " is not available">>
MSG_INVALID_PARAMS == <<"invalid params: ", "serde error">>

\* handle_audio_capture_start preferring the pid of the sourceId to appAudioTargetId
start_target_source_first(parsed, win, pids) ==
    IF IsSome(parsed.exclude_pid)
    THEN [ok |-> TRUE, target_id |-> EXCL_PREFIX \o PID_PREFIX \o fmt_u32(Unwrap(parsed.exclude_pid)),
          target_pid |-> Unwrap(parsed.exclude_pid), exclude |-> TRUE]
    ELSE LET source_pid == IF IsSome(parsed.source_id)
                           THEN LET r == resolve_source_to_pid(Unwrap(parsed.source_id), win) IN
                                IF IsSome(r) THEN Some(PID_PREFIX \o fmt_u32(Unwrap(r))) ELSE None
                           ELSE None
             target_id == IF IsSome(source_pid) THEN source_pid
                          ELSE parsed.app_audio_target_id
         IN IF target_id = None
            THEN Err(MSG_NO_TARGET)
            ELSE IF parse_target_pid(Unwrap(target_id)) = None
            THEN Err(MSG_INVALID_TARGET)
            ELSE IF Unwrap(target_id) \notin audio_target_ids(pids)
            THEN Err(MSG_NOT_AVAILABLE(Unwrap(parse_target_pid(Unwrap(target_id)))))
            ELSE [ok |-> TRUE, target_id |-> Unwrap(target_id),
                  target_pid |-> Unwrap(parse_target_pid(Unwrap(target_id))), exclude |-> FALSE]

\* handle_audio_capture_start without the target_exists test
start_target_unlisted(parsed, win, pids) ==
    IF IsSome(parsed.exclude_pid)
    THEN [ok |-> TRUE, target_id |-> EXCL_PREFIX \o PID_PREFIX \o fmt_u32(Unwrap(parsed.exclude_pid)),
          target_pid |-> Unwrap(parsed.exclude_pid), exclude |-> TRUE]
    ELSE LET source_pid == IF IsSome(parsed.source_id)
                           THEN LET r == resolve_source_to_pid(Unwrap(parsed.source_id), win) IN
                                IF IsSome(r) THEN Some(PID_PREFIX \o fmt_u32(Unwrap(r))) ELSE None
                           ELSE None
             target_id == IF IsSome(parsed.app_audio_target_id) THEN parsed.app_audio_target_id
                          ELSE source_pid
         IN IF target_id = None
            THEN Err(MSG_NO_TARGET)
            ELSE IF parse_target_pid(Unwrap(target_id)) = None
            THEN Err(MSG_INVALID_TARGET)
            ELSE [ok |-> TRUE, target_id |-> Unwrap(target_id),
                  target_pid |-> Unwrap(parse_target_pid(Unwrap(target_id))), exclude |-> FALSE]

\* handle_audio_capture_start from the exclude-mode test on: the error it
\* returns, or the arguments it gives start_capture_thread
start_target(parsed, win, pids) ==
    IF IsSome(parsed.exclude_pid)
    THEN [ok |-> TRUE, target_id |-> EXCL_PREFIX \o PID_PREFIX \o fmt_u32(Unwrap(parsed.exclude_pid)),
          target_pid |-> Unwrap(parsed.exclude_pid), exclude |-> TRUE]
    ELSE LET source_pid == IF IsSome(parsed.source_id)
                           THEN LET r == resolve_source_to_pid(Unwrap(parsed.source_id), win) IN
                                IF IsSome(r) THEN Some(PID_PREFIX \o fmt_u32(Unwrap(r))) ELSE None
                           ELSE None
             target_id == IF IsSome(parsed.app_audio_target_id) THEN parsed.app_audio_target_id
                          ELSE source_pid
         IN IF target_id = None
            THEN Err(MSG_NO_TARGET)
            ELSE IF parse_target_pid(Unwrap(target_id)) = None
            THEN Err(MSG_INVALID_TARGET)
            ELSE IF Unwrap(target_id) \notin audio_target_ids(pids)
            THEN Err(MSG_NOT_AVAILABLE(Unwrap(parse_target_pid(Unwrap(target_id)))))
            ELSE [ok |-> TRUE, target_id |-> Unwrap(target_id),
                  target_pid |-> Unwrap(parse_target_pid(Unwrap(target_id))), exclude |-> FALSE]

\* the descriptor handle_audio_capture_start returns
start_descriptor(session_id, target_id, exclude) ==
    [ok |-> TRUE, sessionId |-> session_id, targetId |-> target_id,
     mode |-> IF exclude THEN "exclude" ELSE "include",
     sampleRate |-> TARGET_SAMPLE_RATE, channels |-> TARGET_CHANNELS,
     framesPerBuffer |-> FRAME_SIZE, protocolVersion |-> PROTOCOL_VERSION,
     encoding |-> PCM_ENCODING]

\* the result of handle_audio_capture_stop
stop_result == [ok |-> TRUE, stopped |-> TRUE, protocolVersion |-> PROTOCOL_VERSION]

(* ------------------------------ inputs -------------------------------- *)

Sessions == 1..MaxSessions
\* process ids of the environment
Pids == {42}
Str_pid42 == PID_PREFIX \o <<"4", "2">>
Str_notpid == <<"n", "o", "t", "p", "i", "d">>
Str_window == WINDOW \o <<":", "1", "3", "3", "7", ":", "0">>
Str_screen == <<"s", "c", "r", "e", "e", "n", ":", "3", ":", "0">>

\* StartAudioCaptureParams the host may send
StartParams ==
    [exclude_pid : {None} \cup {Some(p) : p \in Pids},
     app_audio_target_id : {None, Some(Str_pid42), Some(Str_notpid)},
     source_id : {None, Some(Str_window), Some(Str_screen)}]

\* what the OS may say of a window handle
WindowLookups == [is_window : BOOLEAN, pid : {0} \cup Pids]

\* frame counts of the packets GetBuffer may return
PacketFrames == {480, 1920}

\* the failures of the initialise steps (activation, Initialize, GetService,
\* Start), as the text of the error
InitErrors == {"ActivateAudioInterfaceAsync timed out",
               "Failed to initialize loopback client",
               "Failed to get IAudioCaptureClient",
               "Failed to start audio client"}

(* ------------------------------- state -------------------------------- *)

VARIABLES
    dpc,              \* dispatcher (main): where it is
    req,              \* the request it is handling
    result,           \* the handler's result
    active,           \* stop_capture_session's local `active`: the session taken (0: none)
    found,            \* where the worker of that session was when it was taken (a record for the properties)
    nreq,             \* requests read so far
    capture_session,  \* SidecarState.capture_session: the session id installed (0: None)
    stop_flag,        \* the stop flag of each session
    next_sid,         \* sessions minted so far
    wpc,              \* capture worker of each session: where it is
    sess,             \* the arguments start_capture_thread gave each worker
    wl,               \* the locals of capture_loopback_audio of each worker
    fq,               \* FrameQueue.state
    capacity,         \* FrameQueue.capacity
    wrpc,             \* text frame writer: where it is
    wline,            \* the line it popped
    egress,           \* whether start_app_audio_binary_egress succeeded
    slot,             \* the binary-stream slot: the connection in it (0: None)
    apc,              \* binary acceptor: where it is
    astop,            \* AppAudioBinaryEgress.stop_flag
    nconn,            \* connections accepted so far
    out,              \* everything written to the host, in the order written
    pushed,           \* SpecQueue: push_line calls so far
    popped,           \* SpecQueue: what the pop_line calls returned
    arg,              \* SpecPure: the function called and its arguments
    ret,              \* SpecPure: what the call returned (None: not called yet)
    cpc,              \* SpecConsumers: where each thread calling pop_line is
    cline,            \* SpecConsumers: the line each holds
    rf,               \* SpecReframe: pending and the frames drained, sample by sample
    mutex,            \* SpecThreads: the thread holding each mutex (None: free)
    dispatched        \* the sequence values each worker gave its frames, in capture order (a record for the properties)

vars == <<dpc, req, result, active, found, nreq, capture_session, stop_flag, next_sid, wpc, sess, wl,
          fq, capacity, wrpc, wline, egress, slot, apc, astop, nconn, out, pushed, popped, dispatched,
          arg, ret, cpc, cline, rf, mutex>>

dvars == <<dpc, req, result, active, found, nreq>>
svars == <<capture_session, stop_flag, next_sid>>
wvars == <<wpc, sess, wl>>
qvars == <<fq, capacity>>
wrvars == <<wrpc, wline>>
evars == <<egress, slot, apc, astop, nconn>>
tvars == <<pushed, popped, arg, ret, cpc, cline, rf, mutex>>
pvars == <<arg, ret, cpc, cline, rf, mutex>>

\* the four mutexes: SidecarState (main, l.1104), stdout (write_json_line,
\* l.292), the binary-stream slot (l.416, l.937, l.946) and FrameQueue.state
Mutexes == {"state", "stdout", "slot", "queue"}

NoReq == [n |-> 0, method |-> "none", params |-> None]
NoResult == [ok |-> TRUE]
NoSess == [session_id |-> 0, target_id |-> <<>>, target_pid |-> 0, exclude |-> FALSE, listed |-> TRUE]
NoLocals == [pending |-> 0, frame_samples |-> 0, sequence |-> 0, after_stop |-> 0, handle |-> FALSE,
             com |-> FALSE, reason |-> None, outcome |-> None]

\* the state main reaches before it reads the first request
MainInit(cap) ==
    /\ dpc = "read" /\ req = NoReq /\ result = NoResult /\ active = 0 /\ found = "none" /\ nreq = 0
    /\ capture_session = 0
    /\ stop_flag = [s \in Sessions |-> FALSE]
    /\ next_sid = 0
    /\ wpc = [s \in Sessions |-> "unborn"]
    /\ sess = [s \in Sessions |-> NoSess]
    /\ wl = [s \in Sessions |-> NoLocals]
    /\ fq = FrameQueueState_default
    /\ capacity = cap
    /\ wrpc = "pop" /\ wline = None
    /\ egress \in BOOLEAN
    /\ slot = 0
    /\ apc = IF egress THEN "run" ELSE "none"
    /\ astop = FALSE
    /\ nconn = 0
    /\ out = <<>>
    /\ pushed = 0 /\ popped = <<>>
    /\ dispatched = [s \in Sessions |-> <<>>]
    /\ mutex = [m \in Mutexes |-> None]

\* nothing is called on its own and no thread but the writer pops
IdleHarness == arg = None /\ ret = None /\ cpc = <<>> /\ cline = <<>> /\ rf = None

Init == MainInit(QueueCapacity) /\ IdleHarness

(* --------------------------- capture worker --------------------------- *)

\* the counter stepping by two
next_sequence_skip(sequence) == sequence + 2

\* sequence.saturating_add(1): u64::MAX is out of the reach of MaxFrames
next_sequence(sequence) == sequence + 1

\* the samples one frame takes from pending
frame_len == FRAME_SIZE * TARGET_CHANNELS

\* the closure of capture_loopback_audio returned: its result is kept for the
\* teardown
Returned(w, reason) == [w EXCEPT !.reason = Some(reason)]

\* capture_loopback_audio, lines 686-737: the liveness handle (include mode),
\* CoInitializeEx, then activation, Initialize, GetService and Start. None of
\* it reads or writes anything another thread sees.
WInit(s) ==
    /\ wpc[s] = "spawned"
    /\ \/ /\ ~sess[s].exclude                       \* open_process_for_liveness failed
          /\ wl' = [wl EXCEPT ![s].outcome = Some(from_reason(AppExited))]
          /\ wpc' = [wpc EXCEPT ![s] = "end"]
       \/ \E com \in BOOLEAN, e \in InitErrors :    \* an initialise step failed
            /\ wl' = [wl EXCEPT ![s] = Returned([@ EXCEPT !.handle = ~sess[s].exclude, !.com = com], Err(e))]
            /\ wpc' = [wpc EXCEPT ![s] = "end"]
       \/ \E com \in BOOLEAN :
            /\ wl' = [wl EXCEPT ![s].handle = ~sess[s].exclude, ![s].com = com,
                                ![s].pending = 0, ![s].sequence = 0]
            /\ wpc' = [wpc EXCEPT ![s] = "top"]
    /\ UNCHANGED <<dvars, svars, sess, qvars, wrvars, evars, out, tvars, dispatched>>

\* the pump loop without the stop-flag test
WCheckStop_unchecked(s) ==
    /\ wpc[s] = "top"
    /\ wpc' = [wpc EXCEPT ![s] = "poll"]
    /\ wl' = wl
    /\ UNCHANGED <<dvars, svars, sess, qvars, wrvars, evars, out, tvars, dispatched>>

\* lines 740-743: the stop flag, at the top of each pump iteration
WCheckStop(s) ==
    /\ wpc[s] = "top"
    /\ IF stop_flag[s]
       THEN /\ wl' = [wl EXCEPT ![s] = Returned(@, Ok(CaptureStopped))]
            /\ wpc' = [wpc EXCEPT ![s] = "end"]
       ELSE /\ wpc' = [wpc EXCEPT ![s] = "poll"]
            /\ wl' = wl
    /\ UNCHANGED <<dvars, svars, sess, qvars, wrvars, evars, out, tvars, dispatched>>

RECURSIVE SumSequence(_, _)
SumSequence(w, n) == IF n = 0 THEN 0 ELSE w[n].sequence + SumSequence(w, n - 1)
\* frames dispatched so far by all sessions
Dispatched == SumSequence(wl, MaxSessions)

\* a packet comes only while the run may still dispatch a frame
MayAcquire(s) == Dispatched < MaxFrames

\* lines 773-788: GetBuffer failed, or the chunk of frame_count frames is
\* appended to pending and the buffer released. after_stop counts, up to 2,
\* the packets acquired since the session's stop flag was set.
GetBuffer(s, frame_count) ==
    /\ MayAcquire(s)
    /\ \/ /\ frame_count = 0                        \* GetBuffer failed
          /\ wl' = [wl EXCEPT ![s] = Returned(@, Ok(CaptureError))]
          /\ wpc' = [wpc EXCEPT ![s] = "end"]
       \/ /\ frame_count \in PacketFrames
          /\ Dispatched + ((wl[s].pending + frame_count * TARGET_CHANNELS) \div frame_len) <= MaxFrames
          /\ wl' = [wl EXCEPT ![s].pending = @ + frame_count * TARGET_CHANNELS,
                              ![s].after_stop = IF stop_flag[s] /\ @ < 2 THEN @ + 1 ELSE @]
          /\ wpc' = [wpc EXCEPT ![s] = "drain"]

\* the liveness poll made in exclude mode too
WPoll_liveness_any(s) ==
    /\ wpc[s] = "poll"
    /\ \/ /\ wl' = [wl EXCEPT ![s] = Returned(@, Ok(AppExited))]
          /\ wpc' = [wpc EXCEPT ![s] = "end"]
       \/ /\ wl' = [wl EXCEPT ![s] = Returned(@, Ok(DeviceLost))]
          /\ wpc' = [wpc EXCEPT ![s] = "end"]
       \/ /\ wpc' = [wpc EXCEPT ![s] = "top"]
          /\ wl' = wl
       \/ \E frame_count \in PacketFrames \cup {0} : GetBuffer(s, frame_count)
    /\ UNCHANGED <<dvars, svars, sess, qvars, wrvars, evars, out, tvars, dispatched>>

\* lines 745-788: the liveness poll, GetNextPacketSize, the idle sleep, and
\* the first packet of a burst
WPoll(s) ==
    /\ wpc[s] = "poll"
    /\ \/ /\ wl[s].handle           \* 300 ms elapsed and the process is gone
          /\ wl' = [wl EXCEPT ![s] = Returned(@, Ok(AppExited))]
          /\ wpc' = [wpc EXCEPT ![s] = "end"]
       \/ /\ wl' = [wl EXCEPT ![s] = Returned(@, Ok(DeviceLost))]
          /\ wpc' = [wpc EXCEPT ![s] = "end"]
       \/ /\ wpc' = [wpc EXCEPT ![s] = "top"]       \* packet_size = 0: sleep
          /\ wl' = wl
       \/ \E frame_count \in PacketFrames \cup {0} : GetBuffer(s, frame_count)
    /\ UNCHANGED <<dvars, svars, sess, qvars, wrvars, evars, out, tvars, dispatched>>

\* a failed write_all leaves the connection in the slot
WBinary_keeps_slot(s) ==
    /\ wpc[s] = "drain"
    /\ wl[s].pending >= frame_len
    /\ \/ /\ egress /\ slot # 0
          /\ out' = Append(out, binary_packet(slot, sess[s].session_id, sess[s].target_id, wl[s].sequence, TARGET_SAMPLE_RATE, TARGET_CHANNELS, FRAME_SIZE, PROTOCOL_VERSION, frame_len))
          /\ wl' = [wl EXCEPT ![s].pending = @ - frame_len, ![s].sequence = next_sequence(@)]
          /\ dispatched' = [dispatched EXCEPT ![s] = Append(@, wl[s].sequence)]
          /\ UNCHANGED wpc
       \/ /\ wl' = [wl EXCEPT ![s].pending = @ - frame_len, ![s].frame_samples = frame_len]
          /\ wpc' = [wpc EXCEPT ![s] = "text"]
          /\ UNCHANGED <<out, dispatched>>
    /\ UNCHANGED <<dvars, svars, sess, qvars, wrvars, evars, tvars>>

\* a frame the binary stream took is offered to the Frame Queue as well
WBinary_both(s) ==
    /\ wpc[s] = "drain"
    /\ wl[s].pending >= frame_len
    /\ out' = IF egress /\ slot # 0
              THEN Append(out, binary_packet(slot, sess[s].session_id, sess[s].target_id, wl[s].sequence, TARGET_SAMPLE_RATE, TARGET_CHANNELS, FRAME_SIZE, PROTOCOL_VERSION, frame_len))
              ELSE out
    /\ wl' = [wl EXCEPT ![s].pending = @ - frame_len, ![s].frame_samples = frame_len]
    /\ wpc' = [wpc EXCEPT ![s] = "text"]
    /\ UNCHANGED <<dvars, svars, sess, qvars, wrvars, evars, tvars, dispatched>>

\* lines 790-806: one frame drained from pending and offered to the binary
\* stream (try_write_app_audio_binary_frame, lines 416-428)
WBinary(s) ==
    /\ wpc[s] = "drain"
    /\ wl[s].pending >= frame_len
    /\ LET refused == binary_frame_refused(UUID_STRING_LEN, Len(sess[s].target_id), TARGET_SAMPLE_RATE, TARGET_CHANNELS, FRAME_SIZE, frame_len)
           packet == binary_packet(slot, sess[s].session_id, sess[s].target_id, wl[s].sequence, TARGET_SAMPLE_RATE, TARGET_CHANNELS, FRAME_SIZE, PROTOCOL_VERSION, frame_len)
       IN \/ /\ egress /\ ~refused /\ slot # 0       \* write_all succeeded
             /\ out' = Append(out, packet)
             /\ wl' = [wl EXCEPT ![s].pending = @ - frame_len, ![s].sequence = next_sequence(@)]
             /\ dispatched' = [dispatched EXCEPT ![s] = Append(@, wl[s].sequence)]
             /\ UNCHANGED <<wpc, slot>>
          \/ /\ egress /\ ~refused /\ slot # 0       \* write_all failed
             /\ slot' = 0
             /\ wl' = [wl EXCEPT ![s].pending = @ - frame_len, ![s].frame_samples = frame_len]
             /\ wpc' = [wpc EXCEPT ![s] = "text"]
             /\ UNCHANGED <<out, dispatched>>
          \/ /\ ~egress \/ refused \/ slot = 0
             /\ wl' = [wl EXCEPT ![s].pending = @ - frame_len, ![s].frame_samples = frame_len]
             /\ wpc' = [wpc EXCEPT ![s] = "text"]
             /\ UNCHANGED <<out, slot, dispatched>>
    /\ UNCHANGED <<dvars, svars, sess, qvars, wrvars, egress, apc, astop, nconn, tvars>>

\* enqueue_frame_event with sampleRate and frameCount taken from each other's argument
enqueue_frame_event_swapped(st, cap, session_id, target_id, sequence, sample_rate, frame_count, pcm_base64) ==
    push_line(st, cap, frame_event(session_id, target_id, sequence, frame_count, sample_rate, pcm_base64))

\* enqueue_frame_event (lines 339-363) as lines 808-816 call it
enqueue_frame_event(st, cap, session_id, target_id, sequence, sample_rate, frame_count, pcm_base64) ==
    push_line(st, cap, frame_event(session_id, target_id, sequence, sample_rate, frame_count, pcm_base64))

\* lines 807-820: the frame the binary stream did not take goes to the Frame Queue
WText(s) ==
    /\ wpc[s] = "text"
    /\ fq' = enqueue_frame_event(fq, capacity, sess[s].session_id, sess[s].target_id, wl[s].sequence, TARGET_SAMPLE_RATE, FRAME_SIZE, base64_encode(wl[s].frame_samples * F32_BYTES))
    /\ wl' = [wl EXCEPT ![s].frame_samples = 0, ![s].sequence = next_sequence(@)]
    /\ dispatched' = [dispatched EXCEPT ![s] = Append(@, wl[s].sequence)]
    /\ wpc' = [wpc EXCEPT ![s] = "drain"]
    /\ UNCHANGED <<dvars, svars, sess, capacity, wrvars, evars, out, tvars>>

\* lines 790 and 823-830: pending is short of a frame; GetNextPacketSize, and
\* the next packet of the burst
WNextPacket(s) ==
    /\ wpc[s] = "drain"
    /\ wl[s].pending < frame_len
    /\ \/ /\ wl' = [wl EXCEPT ![s] = Returned(@, Ok(DeviceLost))]
          /\ wpc' = [wpc EXCEPT ![s] = "end"]
       \/ /\ wpc' = [wpc EXCEPT ![s] = "top"]       \* packet_size = 0
          /\ wl' = wl
       \/ \E frame_count \in PacketFrames \cup {0} : GetBuffer(s, frame_count)
    /\ UNCHANGED <<dvars, svars, sess, qvars, wrvars, evars, out, tvars, dispatched>>

\* the outcome without the text of the failure
capture_outcome_no_text(w) ==
    IF IsSome(w.outcome) THEN Unwrap(w.outcome)
    ELSE IF Unwrap(w.reason).ok THEN from_reason(Unwrap(w.reason).value)
    ELSE from_reason(CaptureError)

\* lines 841-847: the outcome capture_loopback_audio returns
capture_outcome(w) ==
    IF IsSome(w.outcome) THEN Unwrap(w.outcome)
    ELSE IF Unwrap(w.reason).ok THEN from_reason(Unwrap(w.reason).value)
    ELSE capture_error(Unwrap(w.reason).message)

\* the exit of a failed initialisation skipping CoUninitialize
WEnd_keeps_com(s) ==
    /\ wpc[s] = "end"
    /\ wl' = [wl EXCEPT ![s].handle = FALSE, ![s].after_stop = 0,
                        ![s].com = @ /\ IsSome(wl[s].reason) /\ ~Unwrap(wl[s].reason).ok]
    /\ out' = Append(out, ended_event(sess[s].session_id, sess[s].target_id, capture_outcome(wl[s])))
    /\ wpc' = [wpc EXCEPT ![s] = "done"]
    /\ UNCHANGED <<dvars, svars, sess, qvars, wrvars, evars, tvars, dispatched>>

\* start_capture_thread leaving the ended event of a stopped session to the stopper
WEnd_silent_stop(s) ==
    /\ wpc[s] = "end"
    /\ wl' = [wl EXCEPT ![s].handle = FALSE, ![s].com = FALSE, ![s].after_stop = 0]
    /\ out' = IF capture_outcome(wl[s]).reason = CaptureStopped THEN out
              ELSE Append(out, ended_event(sess[s].session_id, sess[s].target_id, capture_outcome(wl[s])))
    /\ wpc' = [wpc EXCEPT ![s] = "done"]
    /\ UNCHANGED <<dvars, svars, sess, qvars, wrvars, evars, tvars, dispatched>>

\* lines 834-847, CloseHandle and CoUninitialize for what is held, and
\* start_capture_thread, lines 886-895: the audio_capture.ended event
WEnd(s) ==
    /\ wpc[s] = "end"
    /\ wl' = [wl EXCEPT ![s].handle = FALSE, ![s].com = FALSE, ![s].after_stop = 0]
    /\ out' = Append(out, ended_event(sess[s].session_id, sess[s].target_id, capture_outcome(wl[s])))
    /\ wpc' = [wpc EXCEPT ![s] = "done"]
    /\ UNCHANGED <<dvars, svars, sess, qvars, wrvars, evars, tvars, dispatched>>

Worker(s) ==
    \/ WInit(s) \/ WCheckStop(s) \/ WPoll(s)
    \/ WBinary(s) \/ WText(s) \/ WNextPacket(s) \/ WEnd(s)

(* ----------------------------- dispatcher ----------------------------- *)

\* stop_capture_session not waiting for the worker (the join left out)
join_returns_nowait(s) == TRUE

\* JoinHandle::join returns once the thread has terminated
join_returns(s) == wpc[s] = "done"

\* stop_capture_session up to the join: the record is taken; when it is the
\* one to stop its flag is set and the caller goes on to join (at pc joining),
\* otherwise the record is put back and the caller goes on at pc after
stop_capture_session(requested_session_id, joining, after) ==
    IF capture_session = 0
    THEN /\ dpc' = after
         /\ UNCHANGED <<active, found, capture_session, stop_flag>>
    ELSE IF should_stop(requested_session_id, capture_session)
    THEN /\ active' = capture_session
         /\ found' = wpc[capture_session]
         /\ capture_session' = 0
         /\ stop_flag' = [stop_flag EXCEPT ![capture_session] = TRUE]
         /\ dpc' = joining
    ELSE /\ dpc' = after
         /\ UNCHANGED <<active, found, capture_session, stop_flag>>

\* the session ids a stop request may name: none, one no session has, and the
\* ids minted so far
StopParams == {None} \cup {Some(k) : k \in 0..next_sid}

\* main, lines 1157-1160, and handle_audio_capture_stop up to the join
DStop ==
    /\ dpc = "read" /\ nreq < MaxRequests
    /\ \E session_id \in StopParams :
         /\ req' = [n |-> nreq + 1, method |-> "audio_capture.stop",
                    params |-> Some([session_id |-> session_id])]
         /\ result' = stop_result
         /\ stop_capture_session(session_id, "stop_join", "respond")
    /\ nreq' = nreq + 1
    /\ UNCHANGED <<next_sid, wvars, qvars, wrvars, evars, out, tvars, dispatched>>

\* handle_audio_capture_start going to the target without stopping the
\* active session
DStart_no_stop ==
    /\ dpc = "read" /\ nreq < MaxRequests
    /\ next_sid < MaxSessions
    /\ req' = [n |-> nreq + 1, method |-> "audio_capture.start", params |-> None]
    /\ \E malformed \in BOOLEAN :
         /\ result' = IF malformed THEN Err(MSG_INVALID_PARAMS) ELSE NoResult
         /\ dpc' = IF malformed THEN "respond" ELSE "start_target"
    /\ nreq' = nreq + 1
    /\ UNCHANGED <<active, found, capture_session, stop_flag>>
    /\ UNCHANGED <<next_sid, wvars, qvars, wrvars, evars, out, tvars, dispatched>>

\* main, lines 1147-1156, and handle_audio_capture_start up to the join of
\* stop_capture_session(state, None). The params that parsed are read only
\* after the join: DStartTarget draws them.
DStart ==
    /\ dpc = "read" /\ nreq < MaxRequests
    /\ next_sid < MaxSessions
    /\ req' = [n |-> nreq + 1, method |-> "audio_capture.start", params |-> None]
    /\ \E malformed \in BOOLEAN :
         IF malformed
         THEN /\ result' = Err(MSG_INVALID_PARAMS)
              /\ dpc' = "respond"
              /\ UNCHANGED <<active, found, capture_session, stop_flag>>
         ELSE /\ result' = NoResult
              /\ stop_capture_session(None, "start_join", "start_target")
    /\ nreq' = nreq + 1
    /\ UNCHANGED <<next_sid, wvars, qvars, wrvars, evars, out, tvars, dispatched>>

\* stop_capture_session, line 906: handle.join()
DJoin ==
    /\ dpc \in {"stop_join", "start_join", "cleanup_join"}
    /\ join_returns(active)
    /\ dpc' = CASE dpc = "stop_join" -> "respond"
                [] dpc = "start_join" -> "start_target"
                [] dpc = "cleanup_join" -> "cleanup_close"
    /\ UNCHANGED <<req, result, active, found, nreq, svars, wvars, qvars, wrvars, evars, out, tvars, dispatched>>

\* handle_audio_capture_start, lines 1016-1091: the target, then
\* start_capture_thread and the session record. The handler consumes the
\* params; req keeps those of a refused start, with what the OS said, as a
\* record of what was refused (with keep, those of every start), and
\* sess[s].listed records whether the target of an include-mode session was
\* among the audio targets at that time.
StartTarget(params, lookups, listings, keep) ==
    /\ dpc = "start_target"
    /\ \E parsed \in params, win \in lookups, pids \in listings :
         LET t == start_target(parsed, win, pids)
             session_id == next_sid + 1
         IN /\ req' = [req EXCEPT !.params = IF t.ok /\ ~keep THEN None ELSE Some([parsed |-> parsed, win |-> win, pids |-> pids])]
            /\ IF t.ok
               THEN /\ next_sid' = session_id
                    /\ sess' = [sess EXCEPT ![session_id] =
                                  [session_id |-> session_id, target_id |-> t.target_id,
                                   target_pid |-> t.target_pid, exclude |-> t.exclude,
                                   listed |-> t.exclude \/ t.target_id \in audio_target_ids(pids)]]
                    /\ wpc' = [wpc EXCEPT ![session_id] = "spawned"]
                    /\ capture_session' = session_id
                    /\ result' = start_descriptor(session_id, t.target_id, t.exclude)
               ELSE /\ result' = t
                    /\ UNCHANGED <<next_sid, sess, wpc, capture_session>>
    /\ dpc' = "respond"
    /\ UNCHANGED <<active, found, nreq, stop_flag, wl, qvars, wrvars, evars, out, tvars, dispatched>>

DStartTarget == StartTarget(StartParams, WindowLookups, SUBSET Pids, FALSE)

\* the response to a start held back until the worker has initialised, and
\* turned into a failure when the initialisation failed
DRespond_after_init ==
    /\ dpc = "respond"
    /\ (req.method = "audio_capture.start" /\ result.ok) => wpc[result.sessionId] # "spawned"
    /\ out' = Append(out, response(req,
                 IF req.method = "audio_capture.start" /\ result.ok
                    /\ (IsSome(wl[result.sessionId].outcome)
                        \/ (IsSome(wl[result.sessionId].reason) /\ ~Unwrap(wl[result.sessionId].reason).ok))
                 THEN Err(<<"capture failed">>) ELSE result, active))
    /\ dpc' = "read"
    /\ req' = NoReq /\ result' = NoResult /\ active' = 0 /\ found' = "none"
    /\ UNCHANGED <<nreq, svars, wvars, qvars, wrvars, evars, tvars, dispatched>>

\* main, lines 1164-1165: write_response (the requests of the model carry an id)
DRespond ==
    /\ dpc = "respond"
    /\ out' = Append(out, response(req, result, active))
    /\ dpc' = "read"
    /\ req' = NoReq /\ result' = NoResult /\ active' = 0 /\ found' = "none"
    /\ UNCHANGED <<nreq, svars, wvars, qvars, wrvars, evars, tvars, dispatched>>

\* main, lines 1123-1124 and 1172-1173: end of input; the acceptor is told to stop
DEof ==
    /\ dpc = "read"
    /\ IF egress
       THEN astop' = TRUE /\ dpc' = "cleanup_egress"
       ELSE astop' = astop /\ dpc' = "cleanup_session"
    /\ UNCHANGED <<req, result, active, found, nreq, svars, wvars, qvars, wrvars, egress, slot, apc, nconn, out, tvars, dispatched>>

\* line 1174: the acceptor joined
DCleanupEgress ==
    /\ dpc = "cleanup_egress"
    /\ apc = "exited"
    /\ dpc' = "cleanup_session"
    /\ UNCHANGED <<req, result, active, found, nreq, svars, wvars, qvars, wrvars, evars, out, tvars, dispatched>>

\* lines 1176-1178: stop_capture_session(&mut s, None) up to the join
DCleanupSession ==
    /\ dpc = "cleanup_session"
    /\ stop_capture_session(None, "cleanup_join", "cleanup_close")
    /\ UNCHANGED <<req, result, nreq, next_sid, wvars, qvars, wrvars, evars, out, tvars, dispatched>>

\* line 1179: frame_queue.close()
DCleanupClose ==
    /\ dpc = "cleanup_close"
    /\ fq' = close(fq)
    /\ dpc' = "cleanup_writer"
    /\ UNCHANGED <<req, result, active, found, nreq, svars, wvars, capacity, wrvars, evars, out, tvars, dispatched>>

\* line 1180: frame_writer.join()
DCleanupWriter ==
    /\ dpc = "cleanup_writer"
    /\ wrpc = "exit"
    /\ dpc' = "exit"
    /\ UNCHANGED <<req, result, active, found, nreq, svars, wvars, qvars, wrvars, evars, out, tvars, dispatched>>

Dispatcher ==
    \/ DStop \/ DStart \/ DJoin \/ DStartTarget \/ DRespond
    \/ DEof \/ DCleanupEgress \/ DCleanupSession \/ DCleanupClose \/ DCleanupWriter

(* -------------------------- text frame writer ------------------------- *)

\* start_frame_writer, line 318: queue.pop_line()
WrPop ==
    /\ wrpc = "pop"
    /\ pop_line_returns(fq)
    /\ wline' = pop_line_value(fq)
    /\ fq' = pop_line_state(fq)
    /\ wrpc' = IF IsSome(pop_line_value(fq)) THEN "write" ELSE "exit"
    /\ UNCHANGED <<dvars, svars, wvars, capacity, evars, out, tvars, dispatched>>

\* lines 319-324: the line written to stdout under its mutex
WrWrite ==
    /\ wrpc = "write"
    /\ out' = Append(out, Unwrap(wline))
    /\ wline' = None
    /\ wrpc' = "pop"
    /\ UNCHANGED <<dvars, svars, wvars, qvars, evars, tvars, dispatched>>

(* --------------------------- binary acceptor -------------------------- *)

\* the acceptor keeping the connection the slot already holds
Accept_keeps_first(limit) ==
    /\ apc = "run"
    /\ nconn < limit
    /\ nconn' = nconn + 1
    /\ slot' = IF slot = 0 THEN nconn + 1 ELSE slot
    /\ apc' = IF astop THEN "last" ELSE "run"
    /\ UNCHANGED <<dvars, svars, wvars, qvars, wrvars, egress, astop, out, tvars, dispatched>>

\* start_app_audio_binary_egress, lines 928-944: one iteration of the accept
\* loop; a connection replaces what the slot holds. The loop reads the stop
\* flag before it accepts, so one accept may still follow the setting of the
\* flag (apc "last"), and none after that.
Accept(limit) ==
    /\ apc = "run"
    /\ nconn < limit
    /\ nconn' = nconn + 1
    /\ slot' = nconn + 1
    /\ apc' = IF astop THEN "last" ELSE "run"
    /\ UNCHANGED <<dvars, svars, wvars, qvars, wrvars, egress, astop, out, tvars, dispatched>>

AAccept == Accept(MaxConns)

\* lines 928 and 946: the stop flag read as set; the slot is emptied on the way out
AExit ==
    /\ apc \in {"run", "last"}
    /\ astop
    /\ slot' = 0
    /\ apc' = "exited"
    /\ UNCHANGED <<dvars, svars, wvars, qvars, wrvars, egress, astop, nconn, out, tvars, dispatched>>

(* --------------------------- specification ---------------------------- *)

Next ==
    \/ Dispatcher
    \/ \E s \in Sessions : Worker(s)
    \/ WrPop \/ WrWrite
    \/ AAccept \/ AExit

Spec == Init /\ [][Next]_vars

(* ---------------- the target of audio_capture.start ------------------- *)

\* The sidecar without its binary listener, a host that has at most
\* MaxStartSessions starts accepted, two processes, and the params of every
\* audio_capture.start kept in req until it is answered.

StartPids == {7, 42}
StartParamsWide ==
    [exclude_pid : {None, Some(7)},
     app_audio_target_id : {None, Some(Str_pid42), Some(Str_notpid)},
     source_id : {None, Some(Str_window), Some(Str_screen)}]
StartLookups == [is_window : BOOLEAN, pid : {0} \cup StartPids]

StartInit == Init /\ ~egress

DStartTargetKept == StartTarget(StartParamsWide, StartLookups, SUBSET StartPids, TRUE)

StartNext ==
    \/ DStop \/ DStart \/ DJoin \/ DRespond
    \/ DStartTargetKept /\ next_sid' <= MaxStartSessions
    \/ DEof \/ DCleanupSession \/ DCleanupClose \/ DCleanupWriter
    \/ \E s \in Sessions : Worker(s)
    \/ WrPop \/ WrWrite

SpecStart == StartInit /\ [][StartNext]_vars

(* ------------------ reconnection of the binary stream ----------------- *)

\* The sidecar with its binary listener bound, a host that has at most
\* MaxReconnectSessions starts accepted, and a client that connects to the
\* binary port up to MaxReconnects times.

ReconnectInit == Init /\ egress

AReaccept == Accept(MaxReconnects)

ReconnectNext ==
    \/ DStop \/ DStart \/ DJoin \/ DRespond
    \/ DStartTarget /\ next_sid' <= MaxReconnectSessions
    \/ DEof \/ DCleanupEgress \/ DCleanupSession \/ DCleanupClose \/ DCleanupWriter
    \/ \E s \in Sessions : Worker(s)
    \/ WrPop \/ WrWrite
    \/ AReaccept \/ AExit

SpecReconnect == ReconnectInit /\ [][ReconnectNext]_vars

(* ------------------- the Frame Queue on its own ----------------------- *)

\* A FrameQueue of any capacity, of the capacity main gives it among them,
\* under arbitrary calls of push_line, pop_line and close. The lines pushed
\* are numbered 1, 2, ... in push order.

QueueCapacities == (1..MaxCapacity) \cup {MAIN_QUEUE_CAPACITY}

QueueInit == \E cap \in QueueCapacities : MainInit(cap) /\ ~egress /\ IdleHarness

\* FrameQueue::push_line, lines 246-259
QPush ==
    /\ pushed < capacity + MaxExtraPushes
    /\ pushed' = pushed + 1
    /\ fq' = push_line(fq, capacity, pushed + 1)
    /\ UNCHANGED <<dvars, svars, wvars, capacity, wrvars, evars, out, popped, dispatched, pvars>>

\* FrameQueue::pop_line, lines 261-278, when it returns
QPop ==
    /\ pop_line_returns(fq)
    /\ Len(popped) <= capacity + MaxExtraPushes
    /\ popped' = Append(popped, pop_line_value(fq))
    /\ fq' = pop_line_state(fq)
    /\ UNCHANGED <<dvars, svars, wvars, capacity, wrvars, evars, out, pushed, dispatched, pvars>>

\* FrameQueue::close, lines 280-285
QClose ==
    /\ fq' = close(fq)
    /\ UNCHANGED <<dvars, svars, wvars, capacity, wrvars, evars, out, tvars, dispatched>>

QueueNext == QPush \/ QPop \/ QClose

SpecQueue == QueueInit /\ [][QueueNext]_vars

(* ------------- the Frame Queue, its condvar and its consumers --------- *)

\* The threads that run the loop of start_frame_writer on one FrameQueue,
\* with the wait of pop_line on the condvar spelled out: a thread is about
\* to take the queue's lock in pop_line ("lock"), parked in condvar.wait
\* ("wait"), about to write the line it popped ("write"), or out of its loop
\* ("exit"). push_line and close are called by other threads at any time; the
\* lines pushed are numbered 1, 2, ... in push order.

Consumers == 1..MaxConsumers

ConsumersInit ==
    /\ \E cap \in 1..MaxCapacity : MainInit(cap)
    /\ ~egress
    /\ arg = None /\ ret = None /\ rf = None
    /\ cpc = [c \in Consumers |-> "lock"]
    /\ cline = [c \in Consumers |-> None]

\* Condvar::notify_all: every parked thread is woken and goes for the lock
notify_none(pc) == pc
notify_all(pc) == [c \in DOMAIN pc |-> IF pc[c] = "wait" THEN "lock" ELSE pc[c]]

\* Condvar::notify_one: one parked thread, if there is one, is woken
notify_one(pc, woken) ==
    IF \E c \in DOMAIN pc : pc[c] = "wait"
    THEN \E c \in DOMAIN pc : pc[c] = "wait" /\ woken = [pc EXCEPT ![c] = "lock"]
    ELSE woken = pc

cunch == <<dvars, svars, wvars, capacity, wrvars, evars, popped, dispatched, arg, ret, rf, mutex>>

\* FrameQueue::push_line, lines 246-259: a closed queue returns before notify_one
CPush ==
    /\ pushed < capacity + MaxExtraPushes
    /\ pushed' = pushed + 1
    /\ fq' = push_line(fq, capacity, pushed + 1)
    /\ IF fq.closed THEN cpc' = cpc ELSE notify_one(cpc, cpc')
    /\ UNCHANGED <<cunch, out, cline>>

\* FrameQueue::close, lines 280-285
CClose ==
    /\ fq' = close(fq)
    /\ cpc' = notify_all(cpc)
    /\ UNCHANGED <<cunch, out, cline, pushed>>

\* FrameQueue::pop_line, lines 261-278, one turn of its loop under the lock:
\* a line or none is returned, or the thread parks
CPopLine(c) ==
    /\ cpc[c] = "lock"
    /\ IF pop_line_returns(fq)
       THEN /\ cline' = [cline EXCEPT ![c] = pop_line_value(fq)]
            /\ fq' = pop_line_state(fq)
            /\ cpc' = [cpc EXCEPT ![c] = IF IsSome(pop_line_value(fq)) THEN "write" ELSE "exit"]
       ELSE /\ cpc' = [cpc EXCEPT ![c] = "wait"]
            /\ UNCHANGED <<fq, cline>>
    /\ UNCHANGED <<cunch, out, pushed>>

\* Condvar::wait may return without a notification
CWakeSpurious(c) ==
    /\ cpc[c] = "wait"
    /\ cpc' = [cpc EXCEPT ![c] = "lock"]
    /\ UNCHANGED <<cunch, out, pushed, fq, cline>>

\* start_frame_writer, lines 319-324: the line written to stdout
CWrite(c) ==
    /\ cpc[c] = "write"
    /\ out' = Append(out, Unwrap(cline[c]))
    /\ cline' = [cline EXCEPT ![c] = None]
    /\ cpc' = [cpc EXCEPT ![c] = "lock"]
    /\ UNCHANGED <<cunch, pushed, fq>>

ConsumersNext ==
    \/ CPush \/ CClose
    \/ \E c \in Consumers : CPopLine(c) \/ CWakeSpurious(c) \/ CWrite(c)

\* a thread that can take the lock, or write, eventually does
ConsumersFair == \A c \in Consumers : WF_vars(CPopLine(c)) /\ WF_vars(CWrite(c))

SpecConsumers == ConsumersInit /\ [][ConsumersNext]_vars /\ ConsumersFair

(* ------------------------ re-framing, sample by sample ----------------- *)

\* One worker's pending accumulator and the frames it drains, with every
\* sample told apart: a captured sample is the number of its place among all
\* samples received, a sample of a silent packet is 0. rf.received is what
\* the packets held, in order; rf.frames the frames handed on, in order.

\* frame counts GetBuffer reports
ReframePackets == PacketFrames \cup {500}

\* lines 781-786: the chunk of a packet
chunk(frame_count, silent, offset) ==
    [i \in 1..(frame_count * TARGET_CHANNELS) |-> IF silent THEN 0 ELSE offset + i]

\* what a drain leaves in pending when it takes one sample too few
drain_rest_short(pending) == SubSeq(pending, FRAME_SIZE * TARGET_CHANNELS, Len(pending))
\* line 791, pending.drain(..FRAME_SIZE * TARGET_CHANNELS).collect(): the
\* frame, and what stays in pending
drain_frame(pending) == SubSeq(pending, 1, FRAME_SIZE * TARGET_CHANNELS)
drain_rest(pending) == SubSeq(pending, FRAME_SIZE * TARGET_CHANNELS + 1, Len(pending))

ReframeInit ==
    /\ MainInit(QueueCapacity) /\ ~egress
    /\ arg = None /\ ret = None /\ cpc = <<>> /\ cline = <<>>
    /\ rf = [pc |-> "packet", pending |-> <<>>, frames |-> <<>>, received |-> <<>>, packets |-> 0]

runch == <<dvars, svars, wvars, qvars, wrvars, evars, out, pushed, popped, dispatched, arg, ret, cpc, cline, mutex>>

\* lines 773-788: GetBuffer, the chunk appended to pending, ReleaseBuffer
RPacket ==
    /\ rf.pc = "packet" /\ rf.packets < MaxPackets
    /\ \E frame_count \in ReframePackets, silent \in BOOLEAN :
         rf' = [rf EXCEPT !.pc = "drain", !.packets = @ + 1,
                          !.pending = @ \o chunk(frame_count, silent, Len(rf.received)),
                          !.received = @ \o chunk(frame_count, silent, Len(rf.received))]
    /\ UNCHANGED runch

\* lines 790-821: one frame drained and dispatched
RDrain ==
    /\ rf.pc = "drain" /\ Len(rf.pending) >= FRAME_SIZE * TARGET_CHANNELS
    /\ rf' = [rf EXCEPT !.frames = Append(@, drain_frame(rf.pending)),
                        !.pending = drain_rest(rf.pending)]
    /\ UNCHANGED runch

\* line 790: pending is short of a frame; the packet has been processed
RDrained ==
    /\ rf.pc = "drain" /\ Len(rf.pending) < FRAME_SIZE * TARGET_CHANNELS
    /\ rf' = [rf EXCEPT !.pc = "packet"]
    /\ UNCHANGED runch

\* lines 740-761 and 823-829: the session ends between two packets; pending
\* goes with the closure
REnd ==
    /\ rf.pc = "packet"
    /\ rf' = [rf EXCEPT !.pc = "ended"]
    /\ UNCHANGED runch

ReframeNext == RPacket \/ RDrain \/ RDrained \/ REnd

SpecReframe == ReframeInit /\ [][ReframeNext]_vars

(* ------------------- the threads and their mutexes -------------------- *)

\* The four threads with every mutex acquisition and release a step of its
\* own: mutex[m] is the thread holding m. A thread about to lock a mutex another
\* thread holds has no step until it is released; a join has no step until the
\* joined thread has terminated. The capture worker is reduced to what it does
\* to the mutexes: the stop flag test, the frames of a burst offered to the
\* slot and the Frame Queue, the ended event. pop_line waits on the condvar
\* without the mutex until a line is queued or the queue is closed.

MainThread == Some("main")
WriterThread == Some("writer")
AcceptorThread == Some("acceptor")
WorkerThread(s) == <<"worker", s>>
Threads == {MainThread, WriterThread, AcceptorThread} \cup {WorkerThread(s) : s \in Sessions}

ThreadsInit == Init

Lock(m, thread) == mutex[m] = None /\ mutex' = [mutex EXCEPT ![m] = thread]
Unlock(m, thread) == mutex[m] = thread /\ mutex' = [mutex EXCEPT ![m] = None]

\* variables no step of the threads changes
lconst == <<capacity, egress, pushed, popped, arg, ret, cpc, cline, rf>>

\* main, lines 1123-1160: a request read from stdin
LRequest ==
    /\ dpc = "read" /\ nreq < MaxThreadRequests
    /\ \E method \in {"audio_capture.stop", "audio_capture.start"} :
         /\ method = "audio_capture.start" => next_sid < MaxSessions
         /\ req' = [n |-> nreq + 1, method |-> method, params |-> None]
    /\ nreq' = nreq + 1
    /\ dpc' = "lock_state"
    /\ UNCHANGED <<result, active, found, svars, wvars, qvars, wrvars, evars, out, mutex, dispatched, lconst>>

\* lines 1123-1124 and 1172-1174: end of input; the acceptor is told to stop
LEof ==
    /\ dpc = "read"
    /\ req' = [n |-> 0, method |-> "eof", params |-> None]
    /\ astop' = egress
    /\ dpc' = IF egress THEN "join_acceptor" ELSE "lock_state"
    /\ UNCHANGED <<result, active, found, nreq, svars, wvars, qvars, wrvars, egress, slot, apc, nconn, out, mutex, dispatched, lconst>>

\* line 1174: e.handle.join()
LJoinAcceptor ==
    /\ dpc = "join_acceptor"
    /\ apc = "exited"
    /\ dpc' = "lock_state"
    /\ UNCHANGED <<req, result, active, found, nreq, svars, wvars, qvars, wrvars, evars, out, mutex, dispatched, lconst>>

\* lines 1147, 1157 and 1176: state.lock()
LLockState ==
    /\ dpc = "lock_state"
    /\ Lock("state", MainThread)
    /\ dpc' = "handle"
    /\ UNCHANGED <<req, result, active, found, nreq, svars, wvars, qvars, wrvars, evars, out, dispatched, lconst>>

\* where main goes on once stop_capture_session has returned
after_stop_capture_session == IF req.method = "audio_capture.start" THEN "spawn" ELSE "unlock_state"

\* handle_audio_capture_stop (l.1094-1099), handle_audio_capture_start up to
\* l.1014, and l.1177: stop_capture_session up to the join, under the state mutex
LHandle ==
    /\ dpc = "handle"
    /\ mutex["state"] = MainThread
    /\ CASE req.method = "audio_capture.stop" ->
              \E session_id \in StopParams :
                 /\ result' = stop_result
                 /\ stop_capture_session(session_id, "join", "unlock_state")
         [] req.method = "audio_capture.start" ->
              \E malformed \in BOOLEAN :
                 IF malformed
                 THEN /\ result' = Err(MSG_INVALID_PARAMS)
                      /\ dpc' = "unlock_state"
                      /\ UNCHANGED <<active, found, capture_session, stop_flag>>
                 ELSE /\ result' = NoResult
                      /\ stop_capture_session(None, "join", "spawn")
         [] req.method = "eof" ->
              /\ result' = result
              /\ stop_capture_session(None, "join", "unlock_state")
    /\ UNCHANGED <<req, nreq, next_sid, wvars, qvars, wrvars, evars, out, mutex, dispatched, lconst>>

\* stop_capture_session, line 906: active.handle.join(), the state mutex held
LJoin ==
    /\ dpc = "join"
    /\ join_returns(active)
    /\ dpc' = after_stop_capture_session
    /\ UNCHANGED <<req, result, active, found, nreq, svars, wvars, qvars, wrvars, evars, out, mutex, dispatched, lconst>>

\* handle_audio_capture_start, lines 1016-1091: the target, and
\* start_capture_thread for a target accepted
LSpawn ==
    /\ dpc = "spawn"
    /\ \E parsed \in StartParams, win \in WindowLookups, pids \in SUBSET Pids :
         LET t == start_target(parsed, win, pids)
             session_id == next_sid + 1
         IN IF t.ok
            THEN /\ next_sid' = session_id
                 /\ sess' = [sess EXCEPT ![session_id] =
                               [session_id |-> session_id, target_id |-> t.target_id,
                                target_pid |-> t.target_pid, exclude |-> t.exclude,
                                listed |-> t.exclude \/ t.target_id \in audio_target_ids(pids)]]
                 /\ wpc' = [wpc EXCEPT ![session_id] = "top"]
                 /\ capture_session' = session_id
                 /\ result' = start_descriptor(session_id, t.target_id, t.exclude)
            ELSE /\ result' = t
                 /\ UNCHANGED <<next_sid, sess, wpc, capture_session>>
    /\ dpc' = "unlock_state"
    /\ UNCHANGED <<req, active, found, nreq, stop_flag, wl, qvars, wrvars, evars, out, mutex, dispatched, lconst>>

\* the guard of the state mutex dropped: the end of the match arm (l.1156,
\* l.1160) or of the if let (l.1178)
LUnlockState ==
    /\ dpc = "unlock_state"
    /\ Unlock("state", MainThread)
    /\ dpc' = IF req.method = "eof" THEN "close_lock" ELSE "respond_lock"
    /\ UNCHANGED <<req, result, active, found, nreq, svars, wvars, qvars, wrvars, evars, out, dispatched, lconst>>

\* write_response -> write_json_line, lines 291-294: stdout.lock()
LRespondLock ==
    /\ dpc = "respond_lock"
    /\ Lock("stdout", MainThread)
    /\ dpc' = "respond"
    /\ UNCHANGED <<req, result, active, found, nreq, svars, wvars, qvars, wrvars, evars, out, dispatched, lconst>>

\* write_json_line, lines 295-298: the response written, the guard dropped
LRespond ==
    /\ dpc = "respond"
    /\ Unlock("stdout", MainThread)
    /\ out' = Append(out, response(req, result, active))
    /\ dpc' = "read"
    /\ req' = NoReq /\ result' = NoResult /\ active' = 0 /\ found' = "none"
    /\ UNCHANGED <<nreq, svars, wvars, qvars, wrvars, evars, dispatched, lconst>>

\* FrameQueue::close, line 281: self.state.lock()
LCloseLock ==
    /\ dpc = "close_lock"
    /\ Lock("queue", MainThread)
    /\ dpc' = "close"
    /\ UNCHANGED <<req, result, active, found, nreq, svars, wvars, qvars, wrvars, evars, out, dispatched, lconst>>

\* FrameQueue::close, lines 282-284
LClose ==
    /\ dpc = "close"
    /\ Unlock("queue", MainThread)
    /\ fq' = close(fq)
    /\ dpc' = "join_writer"
    /\ UNCHANGED <<req, result, active, found, nreq, svars, wvars, capacity, wrvars, evars, out, dispatched, lconst>>

\* line 1180: frame_writer.join(); main returns
LJoinWriter ==
    /\ dpc = "join_writer"
    /\ wrpc = "exit"
    /\ dpc' = "exit"
    /\ UNCHANGED <<req, result, active, found, nreq, svars, wvars, qvars, wrvars, evars, out, mutex, dispatched, lconst>>

\* the steps of main but the arrival of its input
LMain ==
    \/ LJoinAcceptor \/ LLockState \/ LHandle \/ LJoin \/ LSpawn \/ LUnlockState
    \/ LRespondLock \/ LRespond \/ LCloseLock \/ LClose \/ LJoinWriter

\* capture_loopback_audio, lines 740-743: the stop flag read as set
LWStopped(s) ==
    /\ wpc[s] = "top"
    /\ stop_flag[s]
    /\ wl' = [wl EXCEPT ![s] = Returned(@, Ok(CaptureStopped))]
    /\ wpc' = [wpc EXCEPT ![s] = "end_lock"]
    /\ UNCHANGED <<dvars, svars, sess, qvars, wrvars, evars, out, mutex, dispatched, lconst>>

\* lines 745-761: the flag read as clear, and the target or the device gone
LWLost(s) ==
    /\ wpc[s] = "top"
    /\ ~stop_flag[s]
    /\ \E reason \in {AppExited, DeviceLost} :
         wl' = [wl EXCEPT ![s] = Returned(@, Ok(reason))]
    /\ wpc' = [wpc EXCEPT ![s] = "end_lock"]
    /\ UNCHANGED <<dvars, svars, sess, qvars, wrvars, evars, out, mutex, dispatched, lconst>>

\* lines 762-806: the flag read as clear (at "top") or a burst going on (at
\* "drain"), and a frame drained from pending
LWFrame(s) ==
    /\ \/ wpc[s] = "top" /\ ~stop_flag[s]
       \/ wpc[s] = "drain"
    /\ wl[s].sequence < MaxThreadFrames
    /\ wpc' = [wpc EXCEPT ![s] = IF egress THEN "slot_lock" ELSE "queue_lock"]
    /\ UNCHANGED <<dvars, svars, sess, wl, qvars, wrvars, evars, out, mutex, dispatched, lconst>>

\* lines 790 and 823-830: pending short of a frame and no packet left
LWBurstEnd(s) ==
    /\ wpc[s] = "drain"
    /\ wpc' = [wpc EXCEPT ![s] = "top"]
    /\ UNCHANGED <<dvars, svars, sess, wl, qvars, wrvars, evars, out, mutex, dispatched, lconst>>

\* try_write_app_audio_binary_frame, line 416: stream_slot.lock()
LWSlotLock(s) ==
    /\ wpc[s] = "slot_lock"
    /\ Lock("slot", WorkerThread(s))
    /\ wpc' = [wpc EXCEPT ![s] = "slot_held"]
    /\ UNCHANGED <<dvars, svars, sess, wl, qvars, wrvars, evars, out, dispatched, lconst>>

\* lines 420-428: the packet written to the connection of the slot, if any,
\* and the guard dropped
LWSlot(s) ==
    /\ wpc[s] = "slot_held"
    /\ Unlock("slot", WorkerThread(s))
    /\ LET packet == binary_packet(slot, sess[s].session_id, sess[s].target_id, wl[s].sequence, TARGET_SAMPLE_RATE, TARGET_CHANNELS, FRAME_SIZE, PROTOCOL_VERSION, frame_len)
       IN \/ /\ slot # 0                              \* write_all succeeded
             /\ out' = Append(out, packet)
             /\ wl' = [wl EXCEPT ![s].sequence = next_sequence(@)]
             /\ dispatched' = [dispatched EXCEPT ![s] = Append(@, wl[s].sequence)]
             /\ wpc' = [wpc EXCEPT ![s] = "drain"]
             /\ slot' = slot
          \/ /\ slot # 0                              \* write_all failed
             /\ slot' = 0
             /\ wpc' = [wpc EXCEPT ![s] = "queue_lock"]
             /\ UNCHANGED <<out, wl, dispatched>>
          \/ /\ slot = 0
             /\ wpc' = [wpc EXCEPT ![s] = "queue_lock"]
             /\ UNCHANGED <<out, wl, dispatched, slot>>
    /\ UNCHANGED <<dvars, svars, sess, qvars, wrvars, egress, apc, astop, nconn, lconst>>

\* enqueue_frame_event -> push_line, line 247: self.state.lock()
LWQueueLock(s) ==
    /\ wpc[s] = "queue_lock"
    /\ Lock("queue", WorkerThread(s))
    /\ wpc' = [wpc EXCEPT ![s] = "queue_held"]
    /\ UNCHANGED <<dvars, svars, sess, wl, qvars, wrvars, evars, out, dispatched, lconst>>

\* push_line, lines 251-259, and lines 817-819
LWQueue(s) ==
    /\ wpc[s] = "queue_held"
    /\ Unlock("queue", WorkerThread(s))
    /\ fq' = enqueue_frame_event(fq, capacity, sess[s].session_id, sess[s].target_id, wl[s].sequence, TARGET_SAMPLE_RATE, FRAME_SIZE, base64_encode(frame_len * F32_BYTES))
    /\ wl' = [wl EXCEPT ![s].sequence = next_sequence(@)]
    /\ dispatched' = [dispatched EXCEPT ![s] = Append(@, wl[s].sequence)]
    /\ wpc' = [wpc EXCEPT ![s] = "drain"]
    /\ UNCHANGED <<dvars, svars, sess, capacity, wrvars, evars, out, lconst>>

\* the ended event written under a mutex its stopper holds
ended_mutex_state == "state"

\* start_capture_thread, line 895: write_event locks stdout
ended_mutex == "stdout"

\* write_event -> write_json_line, lines 291-294
LWEndLock(s) ==
    /\ wpc[s] = "end_lock"
    /\ Lock(ended_mutex, WorkerThread(s))
    /\ wpc' = [wpc EXCEPT ![s] = "end_held"]
    /\ UNCHANGED <<dvars, svars, sess, wl, qvars, wrvars, evars, out, dispatched, lconst>>

\* lines 295-298: the ended event written, the guard dropped, the thread over
LWEnd(s) ==
    /\ wpc[s] = "end_held"
    /\ Unlock(ended_mutex, WorkerThread(s))
    /\ out' = Append(out, ended_event(sess[s].session_id, sess[s].target_id, capture_outcome(wl[s])))
    /\ wpc' = [wpc EXCEPT ![s] = "done"]
    /\ UNCHANGED <<dvars, svars, sess, wl, qvars, wrvars, evars, dispatched, lconst>>

\* the steps of a worker that follow from what it has read, not from what
\* the OS hands it
LWorker(s) ==
    \/ LWStopped(s) \/ LWBurstEnd(s) \/ LWSlotLock(s) \/ LWSlot(s)
    \/ LWQueueLock(s) \/ LWQueue(s) \/ LWEndLock(s) \/ LWEnd(s)

\* pop_line, lines 262-277: the mutex taken (at the call or at the wake-up)
\* with a line queued or the queue closed
LWrPopLock ==
    /\ wrpc = "pop"
    /\ pop_line_returns(fq)
    /\ Lock("queue", WriterThread)
    /\ wrpc' = "popping"
    /\ UNCHANGED <<dvars, svars, wvars, qvars, wline, evars, out, dispatched, lconst>>

\* pop_line, lines 267-272: what it returns, the guard dropped
LWrPop ==
    /\ wrpc = "popping"
    /\ Unlock("queue", WriterThread)
    /\ wline' = pop_line_value(fq)
    /\ fq' = pop_line_state(fq)
    /\ wrpc' = IF IsSome(pop_line_value(fq)) THEN "write_lock" ELSE "exit"
    /\ UNCHANGED <<dvars, svars, wvars, capacity, evars, out, dispatched, lconst>>

\* start_frame_writer, line 319: stdout.lock()
LWrWriteLock ==
    /\ wrpc = "write_lock"
    /\ Lock("stdout", WriterThread)
    /\ wrpc' = "write"
    /\ UNCHANGED <<dvars, svars, wvars, qvars, wline, evars, out, dispatched, lconst>>

\* lines 323-325: the line written, the guard dropped
LWrWrite ==
    /\ wrpc = "write"
    /\ Unlock("stdout", WriterThread)
    /\ out' = Append(out, Unwrap(wline))
    /\ wline' = None
    /\ wrpc' = "pop"
    /\ UNCHANGED <<dvars, svars, wvars, qvars, evars, dispatched, lconst>>

LWriter == LWrPopLock \/ LWrPop \/ LWrWriteLock \/ LWrWrite

\* start_app_audio_binary_egress, lines 928-931: the flag read as clear and a
\* connection accepted
LAccept ==
    /\ apc = "run"
    /\ nconn < MaxConns
    /\ nconn' = nconn + 1
    /\ apc' = "store_lock"
    /\ UNCHANGED <<dvars, svars, wvars, qvars, wrvars, egress, slot, astop, out, mutex, dispatched, lconst>>

\* line 933: worker_stream.lock()
LAStoreLock ==
    /\ apc = "store_lock"
    /\ Lock("slot", AcceptorThread)
    /\ apc' = "store"
    /\ UNCHANGED <<dvars, svars, wvars, qvars, wrvars, egress, slot, astop, nconn, out, dispatched, lconst>>

\* lines 934-935: the connection stored, the guard dropped
LAStore ==
    /\ apc = "store"
    /\ Unlock("slot", AcceptorThread)
    /\ slot' = nconn
    /\ apc' = "run"
    /\ UNCHANGED <<dvars, svars, wvars, qvars, wrvars, egress, astop, nconn, out, dispatched, lconst>>

\* lines 928 and 946: the flag read as set, worker_stream.lock()
LAExitLock ==
    /\ apc = "run"
    /\ astop
    /\ Lock("slot", AcceptorThread)
    /\ apc' = "exit_held"
    /\ UNCHANGED <<dvars, svars, wvars, qvars, wrvars, egress, slot, astop, nconn, out, dispatched, lconst>>

\* line 946: the slot emptied, the guard dropped, the thread over
LAExit ==
    /\ apc = "exit_held"
    /\ Unlock("slot", AcceptorThread)
    /\ slot' = 0
    /\ apc' = "exited"
    /\ UNCHANGED <<dvars, svars, wvars, qvars, wrvars, egress, astop, nconn, out, dispatched, lconst>>

\* the steps of the acceptor but the arrival of a connection
LAcceptor == LAStoreLock \/ LAStore \/ LAExitLock \/ LAExit

ThreadsNext ==
    \/ LRequest \/ LEof
    \/ LJoinAcceptor \/ LLockState \/ LHandle \/ LJoin \/ LSpawn \/ LUnlockState
    \/ LRespondLock \/ LRespond \/ LCloseLock \/ LClose \/ LJoinWriter
    \/ \E s \in Sessions :
         \/ LWStopped(s) \/ LWLost(s) \/ LWFrame(s) \/ LWBurstEnd(s)
         \/ LWSlotLock(s) \/ LWSlot(s) \/ LWQueueLock(s) \/ LWQueue(s)
         \/ LWEndLock(s) \/ LWEnd(s)
    \/ LWrPopLock \/ LWrPop \/ LWrWriteLock \/ LWrWrite
    \/ LAccept \/ LAStoreLock \/ LAStore \/ LAExitLock \/ LAExit

\* every thread that can go on does: a thread at a lock gets the mutex once
\* it stays free, a thread in a join returns once the joined thread is over,
\* and the OS calls return. What arrives from outside (requests, the end of
\* the input, connections, packets, the end of the target) is under no
\* obligation to arrive.
ThreadsFair ==
    /\ WF_vars(LMain)
    /\ \A s \in Sessions : WF_vars(LWorker(s))
    /\ WF_vars(LWriter)
    /\ WF_vars(LAcceptor)

SpecThreads == ThreadsInit /\ [][ThreadsNext]_vars /\ ThreadsFair

(* -------------------- the functions on their own ---------------------- *)

\* One call of try_write_app_audio_binary_frame, parse_target_pid,
\* parse_window_source_id or dedupe_window_entries_by_pid: arg is the call,
\* ret what it returned.

\* arguments of try_write_app_audio_binary_frame around the limits it tests:
\* with a 36-byte session id and a 6-byte target id, 1048557 samples make a
\* payload of exactly MAX_APP_AUDIO_BINARY_FRAME_BYTES
TryWriteCalls ==
    [fn : {"try_write_app_audio_binary_frame"},
     conn : {0, 1},
     session_id_len : {0, 36, 65535, 65536},
     target_id_len : {0, 6, 65535, 65536},
     sample_rate : {0, 48000},
     channels : {0, 1},
     frame_count : {0, 960},
     n_samples : {0, 960, 1048557, 1048558},
     write_all : {[ok |-> TRUE, bytes |-> 0], [ok |-> FALSE, bytes |-> 0], [ok |-> FALSE, bytes |-> 100]}]

\* pids whose wire form pid:<N> is parsed back
PidValues == {0, 7, 42, 4321, 65535, 2147483647}

\* what may follow "pid:", or stand without it
PidRemainders ==
    {<<>>, <<"a", "b", "c">>, <<"4", "3", "2", "1">>, <<"+", "4", "2">>, <<"-", "4", "2">>,
     <<"0", "4", "2">>, <<"4", " ", "2">>, <<"1", "2", "a">>, <<"4", "2", ":", "0">>, <<"+">>,
     <<"4", "2", "9", "4", "9", "6", "7", "2", "9", "6">>}

ParseTargetPidCalls ==
    [fn : {"parse_target_pid"},
     target_id : {PID_PREFIX \o fmt_u32(n) : n \in PidValues}
                    \cup {PID_PREFIX \o r : r \in PidRemainders}
                    \cup PidRemainders
                    \cup {<<"P", "I", "D", ":", "4", "2">>, <<"p", "i", "d", "4", "2">>,
                          <<" ">> \o PID_PREFIX \o <<"4", "2">>}]

\* Display of a signed integer
fmt_isize(n) == IF n < 0 THEN <<"-">> \o fmt_u32(0 - n) ELSE fmt_u32(n)

\* window handles whose source id is parsed back
HwndValues == {0, 3, 1337, 65552, 0 - 5}

\* what may follow the second field
SourceSuffixes == {<<>>, <<":", "0">>, <<":">>, <<":", "x", ":", "y">>}

ParseWindowSourceIdCalls ==
    [fn : {"parse_window_source_id"},
     source_id : {WINDOW \o <<":">> \o fmt_isize(h) \o suffix : h \in HwndValues, suffix \in SourceSuffixes}
                    \cup {Str_window, Str_screen, WINDOW, WINDOW \o <<":">>, <<>>,
                          WINDOW \o <<":", "n", "o", "t", "-", "a", "-", "n", "u", "m", "b", "e", "r", ":", "0">>,
                          WINDOW \o <<":", "+", "7", ":", "0">>,
                          WINDOW \o <<":", "1", "2", "x", ":", "0">>,
                          WINDOW \o <<":", ":", "5">>,
                          WINDOW \o <<"s", ":", "1", ":", "0">>,
                          <<"W">> \o Tail(WINDOW) \o <<":", "1", ":", "0">>,
                          <<":">> \o WINDOW \o <<":", "1">>,
                          <<"1", "3", "3", "7">>}]

\* window entries (pid, title), in enumeration order
WindowEntries == [pid : {100, 200}, title : {"First", "Second", "Other"}]

DedupeCalls ==
    [fn : {"dedupe_window_entries_by_pid"},
     entries : UNION {[1..n -> WindowEntries] : n \in 0..MaxEntries}]

PureInit ==
    /\ MainInit(QueueCapacity) /\ ~egress
    /\ ret = None /\ cpc = <<>> /\ cline = <<>> /\ rf = None
    /\ \E call \in TryWriteCalls \cup ParseTargetPidCalls \cup ParseWindowSourceIdCalls \cup DedupeCalls :
         arg = Some(call)

\* the call of arg has not been made
Calling(fn) == arg # None /\ Unwrap(arg).fn = fn /\ ret = None

unret == <<dvars, svars, wvars, qvars, wrvars, evars, out, pushed, popped, dispatched, arg, cpc, cline, rf, mutex>>

Call_try_write_app_audio_binary_frame ==
    /\ Calling("try_write_app_audio_binary_frame")
    /\ LET a == Unwrap(arg) IN
       ret' = Some(try_write_app_audio_binary_frame(a.conn, a.session_id_len, a.target_id_len, a.sample_rate, a.channels, a.frame_count, a.n_samples, a.write_all))
    /\ UNCHANGED unret

Call_parse_target_pid ==
    /\ Calling("parse_target_pid")
    /\ ret' = Some(parse_target_pid(Unwrap(arg).target_id))
    /\ UNCHANGED unret

Call_parse_window_source_id ==
    /\ Calling("parse_window_source_id")
    /\ ret' = Some(parse_window_source_id(Unwrap(arg).source_id))
    /\ UNCHANGED unret

Call_dedupe_window_entries_by_pid ==
    /\ Calling("dedupe_window_entries_by_pid")
    /\ ret' = Some(dedupe_window_entries_by_pid(Unwrap(arg).entries))
    /\ UNCHANGED unret

PureNext ==
    \/ Call_try_write_app_audio_binary_frame
    \/ Call_parse_target_pid
    \/ Call_parse_window_source_id
    \/ Call_dedupe_window_entries_by_pid

SpecPure == PureInit /\ [][PureNext]_vars

(* ======================== properties ================================== *)

Min(a, b) == IF a < b THEN a ELSE b

\* the lines numbered from..to, in order
Range(from, to) == [i \in 1..(to - from + 1) |-> from + i - 1]

\* the queue never holds more than capacity lines
C8_LengthBounded == Len(fq.queue) <= capacity
\* with no pop so far the queue holds the last min(pushed, capacity) lines pushed
C8_LastNKept ==
    (popped = <<>> /\ ~fq.closed) =>
        fq.queue = Range(pushed - Min(pushed, capacity) + 1, pushed)
\* a push on a full open queue removes the head and appends the new line
C8_PushEvictsOldest ==
    (pushed' = pushed + 1 /\ ~fq.closed /\ Len(fq.queue) = capacity) =>
        fq'.queue = Append(Tail(fq.queue), pushed')
(* C8: a push on an open queue that holds capacity lines removes exactly   *)
(* the oldest and appends the new one; after N+k pushes with no pop the    *)
(* queue holds exactly the last N lines pushed, in push order; under any   *)
(* interleaving of pushes and pops the length never exceeds the capacity.  *)
C8_DropOldest == [](C8_LengthBounded /\ C8_LastNKept) /\ [][C8_PushEvictsOldest]_vars

\* the queue main builds, after N+2 pushes and no pop
C8_Witness ==
    /\ capacity = MAIN_QUEUE_CAPACITY /\ pushed = capacity + 2 /\ popped = <<>> /\ ~fq.closed
    /\ Len(fq.queue) = capacity /\ Head(fq.queue) = 3


(* ----------------------- reading the output --------------------------- *)

\* a capture worker thread exists and has not terminated
Alive(s) == wpc[s] \notin {"unborn", "done"}

IsEnded(m, s) == m.kind = "ended" /\ m.sessionId = s
IsFrame(m, s) == m.kind = "frame" /\ m.sessionId = s
IsTextFrame(m, s) == m.kind = "frame" /\ m.chan = "text" /\ m.sessionId = s
IsStartResponse(m) == m.kind = "response" /\ m.method = "audio_capture.start"
IsStopResponse(m) == m.kind = "response" /\ m.method = "audio_capture.stop"

\* the positions of out that hold an audio_capture.ended event of session s
EndedAt(s) == {i \in DOMAIN out : IsEnded(out[i], s)}

RECURSIVE SelectFrames(_, _, _)
\* the sequence numbers of the frames of session s in log, on the channels chans, in order
SelectFrames(log, s, chans) ==
    IF log = <<>> THEN <<>>
    ELSE LET m == Head(log) IN
         (IF IsFrame(m, s) /\ m.chan \in chans THEN <<m.sequence>> ELSE <<>>)
            \o SelectFrames(Tail(log), s, chans)

\* the sequence numbers delivered to the host for session s, in delivery order
Delivered(s) == SelectFrames(out, s, {"binary", "text"})

StrictlyIncreasing(q) == \A i, j \in DOMAIN q : i < j => q[i] < q[j]

\* the PCM bytes a frame carries
PayloadBytes(m) == IF m.chan = "binary" THEN m.pcmBytes ELSE base64_decoded_len(m.pcmBase64)

\* every frame written, queued or in the writer's hands
AllFrames ==
    {out[i] : i \in {j \in DOMAIN out : out[j].kind = "frame"}}
        \cup {fq.queue[i] : i \in DOMAIN fq.queue}
        \cup {wline[i] : i \in DOMAIN wline}

\* at most one worker is alive, and it is the installed or the joined one
C1_OneAlive ==
    /\ \A s, t \in Sessions : (Alive(s) /\ Alive(t)) => s = t
    /\ \A s \in Sessions : Alive(s) =>
          \/ capture_session = s
          \/ active = s /\ dpc \in {"stop_join", "start_join", "cleanup_join"}
\* a worker is spawned only when no other worker is alive
C1_SpawnAfterJoin ==
    \A s \in Sessions : (wpc[s] = "unborn" /\ wpc'[s] # "unborn") =>
        \A t \in Sessions : wpc[t] \in {"unborn", "done"}
(* C1: at most one capture worker is alive at any time, it is the worker   *)
(* of the session record installed or of the one stop_capture_session has  *)
(* taken and is joining, and a worker is spawned only when no other worker *)
(* is alive.                                                               *)
C1_SingleWorker == []C1_OneAlive /\ [][C1_SpawnAfterJoin]_vars

\* a second start stopped and joined the first session; its own worker runs
C1_Witness ==
    /\ wpc[1] = "done" /\ stop_flag[1] /\ Alive(2) /\ capture_session = 2
    /\ \E i \in DOMAIN out : IsStartResponse(out[i]) /\ out[i].stopped = 1 /\ out[i].ok

(* C2: a session whose worker has terminated has exactly one               *)
(* audio_capture.ended event in the output, a session whose worker has not *)
(* has none, and every reason is one of the four; this also after a        *)
(* session that ended by itself is stopped by a later stop or start.       *)
C2_ExactlyOneEnded ==
    /\ \A s \in Sessions :
          Cardinality(EndedAt(s)) = IF wpc[s] = "done" THEN 1 ELSE 0
    /\ \A i \in DOMAIN out : out[i].kind = "ended" => out[i].reason \in CaptureEndReasons

\* the session ended by itself (its worker had terminated when the stop took
\* its record) and the stop that named it has joined it
C2_Witness ==
    /\ dpc = "respond" /\ req.method = "audio_capture.stop" /\ active = 1 /\ found = "done"
    /\ \E i \in DOMAIN out : IsEnded(out[i], 1) /\ out[i].reason = DeviceLost
    /\ Cardinality(EndedAt(1)) = 1

(* C3 (as claimed): once the response to the audio_capture.stop that       *)
(* stopped session S is written, no audio_capture.frame event of S is      *)
(* written to the text channel.                                            *)
C3_NoFrameAfterStop ==
    \A i, j \in DOMAIN out :
        (i < j /\ IsStopResponse(out[i]) /\ out[i].stopped # 0) =>
            ~IsTextFrame(out[j], out[i].stopped)

C5_DispatchedInOrder ==
    \A s \in Sessions :
        /\ dispatched[s] = Range(0, wl[s].sequence - 1)
        /\ wpc[s] \in {"unborn", "spawned"} => wl[s].sequence = 0

\* the second session dispatched its first frame after the first session
\* dispatched one, one of them on each path
C5_Witness ==
    /\ dispatched[1] = <<0>> /\ dispatched[2] = <<0>>
    /\ \E i, j \in DOMAIN out : /\ IsFrame(out[i], 1) /\ out[i].chan = "binary"
                                /\ IsFrame(out[j], 2) /\ out[j].chan = "text"

(* C6 (as claimed): when audio_capture.start takes a session whose worker  *)
(* is still running (initialising, pumping or idle), that session's        *)
(* audio_capture.ended event is written with reason capture_stopped before *)
(* the response to the start.                                              *)
C6_EndedStoppedBeforeResponse ==
    (dpc = "respond" /\ req.method = "audio_capture.start" /\ active # 0
        /\ found \notin {"end", "done"}) =>
            \E i \in DOMAIN out : IsEnded(out[i], active) /\ out[i].reason = CaptureStopped

(* C6 (amended): the ended event of the session a start stopped is written *)
(* before the response to that start; its reason is capture_stopped when   *)
(* the worker's next step, at the time the flag was set, was the stop test *)
(* at the top of the pump loop (the worker was idle); a worker that was    *)
(* initialising or handling a packet may end with another reason.          *)
C6_EndedBeforeResponse ==
    /\ \A j \in DOMAIN out : (IsStartResponse(out[j]) /\ out[j].stopped # 0) =>
          \E i \in 1..(j - 1) : IsEnded(out[i], out[j].stopped)
    /\ (dpc \in {"start_target", "respond"} /\ req.method = "audio_capture.start" /\ active # 0) =>
          \E i \in DOMAIN out :
              /\ IsEnded(out[i], active)
              /\ found = "top" => out[i].reason = CaptureStopped

\* the second start found the first worker idle; the first session ended
\* with capture_stopped and the second session is installed
C6_Witness ==
    /\ dpc = "respond" /\ req.method = "audio_capture.start" /\ active = 1 /\ found = "top"
    /\ capture_session = 2
    /\ \E i \in DOMAIN out : IsEnded(out[i], 1) /\ out[i].reason = CaptureStopped

(* C7: every frame written to the binary stream or the text channel, or on *)
(* its way there, carries channels 1, sampleRate 48000, frameCount 960 and *)
(* 3840 bytes of PCM, with the id of a session that exists, that session's *)
(* target id and a sequence number that session's worker has given.        *)
C7_FrameShape ==
    \A m \in AllFrames :
        /\ m.channels = 1 /\ m.sampleRate = 48000 /\ m.frameCount = 960
        /\ PayloadBytes(m) = m.frameCount * m.channels * 4
        /\ PayloadBytes(m) = 3840
        /\ m.sessionId \in 1..next_sid
        /\ m.targetId = sess[m.sessionId].target_id
        /\ m.sequence \in 0..(wl[m.sessionId].sequence - 1)

\* a frame went out on each path
C7_Witness ==
    \E i, j \in DOMAIN out : /\ out[i].kind = "frame" /\ out[i].chan = "binary"
                             /\ out[j].kind = "frame" /\ out[j].chan = "text"

\* the step of main that reads an audio_capture.stop request
IsStopStep == dpc = "read" /\ req'.method = "audio_capture.stop"
\* the session id that request names
StopStepId == Unwrap(req'.params).session_id
\* no session is active, or the request names another session than the active one
StopIsNoOp == capture_session = 0 \/ (IsSome(StopStepId) /\ Unwrap(StopStepId) # capture_session)

\* what the step that reads an audio_capture.stop does
C9_StopStep ==
    IsStopStep =>
        /\ result' = stop_result
        /\ IF StopIsNoOp
           THEN /\ UNCHANGED <<capture_session, stop_flag, wpc, wl, sess, out, fq>>
                /\ active' = 0 /\ dpc' = "respond"
           ELSE /\ active' = capture_session /\ capture_session' = 0
                /\ stop_flag' = [stop_flag EXCEPT ![capture_session] = TRUE]
                /\ dpc' = "stop_join"
\* what holds when the response to it is written
C9_AtRespond ==
    /\ capture_session # 0 => ~stop_flag[capture_session]
    /\ (dpc = "respond" /\ req.method = "audio_capture.stop") =>
          /\ result = stop_result
          /\ active # 0 => /\ wpc[active] = "done" /\ stop_flag[active] /\ capture_session = 0
                           /\ Cardinality(EndedAt(active)) = 1
RefusedStart == dpc = "respond" /\ req.method = "audio_capture.start" /\ IsSome(req.params)
\* the params of that request and what the OS said
Refused == Unwrap(req.params)
\* the sourceId names a window the OS resolves to a process
SourceResolves(r) ==
    r.parsed.source_id = Some(Str_window) /\ r.win.is_window /\ r.win.pid # 0
\* the target id the request gives or its sourceId resolves to is pid:42
TargetIsPid42(r) ==
    \/ r.parsed.app_audio_target_id = Some(Str_pid42)
    \/ r.parsed.app_audio_target_id = None /\ SourceResolves(r) /\ r.win.pid = 42

\* what holds when the refusal is answered, and of every session started
C10_AtRespond ==
    /\ RefusedStart =>
          /\ Refused.parsed.exclude_pid = None
          /\ ~result.ok
          /\ result.message \in {MSG_NO_TARGET, MSG_INVALID_TARGET, MSG_NOT_AVAILABLE(42)}
          /\ result.message = MSG_NO_TARGET <=>
                (Refused.parsed.app_audio_target_id = None /\ ~SourceResolves(Refused))
          /\ result.message = MSG_INVALID_TARGET <=>
                Refused.parsed.app_audio_target_id = Some(Str_notpid)
          /\ result.message = MSG_NOT_AVAILABLE(42) <=>
                (TargetIsPid42(Refused) /\ 42 \notin Refused.pids)
          /\ capture_session = 0
          /\ \A s \in Sessions : ~Alive(s)
          /\ \A s \in Sessions : s > next_sid => wpc[s] = "unborn" /\ EndedAt(s) = {}
    /\ \A s \in Sessions : (wpc[s] # "unborn" /\ ~sess[s].exclude) =>
          /\ sess[s].listed
          /\ parse_target_pid(sess[s].target_id) = Some(sess[s].target_pid)
\* the step of handle_audio_capture_start that refuses
C10_RefusalStep ==
    (dpc = "start_target" /\ ~result'.ok) =>
        UNCHANGED <<wpc, wl, sess, next_sid, capture_session, stop_flag, out, fq>>
(* C10: an include-mode audio_capture.start is refused with 'No app audio  *)
(* target provided and source mapping failed' exactly when it gives no     *)
(* appAudioTargetId and no sourceId that resolves, with 'Invalid app audio *)
(* target id' exactly when the target id is not pid:<N>, and with 'Target  *)
(* process with pid N is not available' exactly when pid:N is not among    *)
(* the audio targets; a refused start spawns no worker, installs no        *)
(* session record and writes nothing, and every include-mode session that  *)
(* did start had its target among the audio targets.                       *)
C10_StartRefused == []C10_AtRespond /\ [][C10_RefusalStep]_vars

\* a start naming pid:42 is refused, 42 having no audio target, after it
\* stopped the session that was running
C10_Witness ==
    /\ RefusedStart /\ result.message = MSG_NOT_AVAILABLE(42)
    /\ Refused.parsed.app_audio_target_id = Some(Str_pid42)
    /\ active = 1 /\ wpc[1] = "done"

\* the call fn has returned: its arguments and its result
Returned_from(fn) == arg # None /\ Unwrap(arg).fn = fn /\ ret # None
Args == Unwrap(arg)
Result == Unwrap(ret)

\* the length of the payload of a binary frame, counted field by field
PayloadLength(a) ==
    2 + a.session_id_len + 2 + a.target_id_len + 8 + 4 + 2 + 4 + 4 + 4 + 4 + 4 * a.n_samples

\* one of the cases in which the frame must not be written
MustRefuse(a) ==
    \/ PayloadLength(a) > 4 * 1024 * 1024
    \/ a.session_id_len = 0 \/ a.session_id_len > 65535
    \/ a.target_id_len = 0 \/ a.target_id_len > 65535
    \/ a.sample_rate = 0 \/ a.channels = 0 \/ a.frame_count = 0

(* C11: try_write_app_audio_binary_frame returns false, writes no byte to  *)
(* the stream and leaves the slot as it is whenever the payload is longer  *)
(* than 4 MiB, the session id or the target id is empty or longer than     *)
(* 65535 bytes, or the sample rate, the channels or the frame count is 0;  *)
(* a payload of exactly 4 MiB is written.                                  *)
C11_RefusedUnwritten ==
    Returned_from("try_write_app_audio_binary_frame") =>
        /\ MustRefuse(Args) => (~Result.wrote /\ Result.bytes = 0 /\ Result.slot = Args.conn)
        /\ Result.wrote => (Result.bytes = 4 + PayloadLength(Args) /\ Args.conn # 0 /\ Args.write_all.ok)

\* a frame one sample over the limit was refused with a connection in the
\* slot that would have taken it
C11_Witness ==
    /\ Returned_from("try_write_app_audio_binary_frame")
    /\ Args.n_samples = 1048558 /\ Args.session_id_len = 36 /\ Args.target_id_len = 6
    /\ Args.sample_rate # 0 /\ Args.channels # 0 /\ Args.frame_count # 0
    /\ Args.conn = 1 /\ Args.write_all.ok
    /\ ~Result.wrote /\ Result.bytes = 0

\* s is a non-empty string of decimal digits
IsDecimal(s) == s # <<>> /\ \A i \in 1..Len(s) : s[i] \in {"0", "1", "2", "3", "4", "5", "6", "7", "8", "9"}
\* s is a decimal number as str::parse reads one: digits after an optional sign
IsNumeric(s, signs) == IsDecimal(s) \/ (s # <<>> /\ s[1] \in signs /\ IsDecimal(Tail(s)))

(* C12: parse_target_pid gives N back for pid: followed by the decimal     *)
(* digits of N, for every N, and none for a string that lacks the pid:     *)
(* prefix or whose remainder is not a number (str::parse::<u32> counts an  *)
(* optional + before the digits as part of the number).                    *)
C12_ParseTargetPid ==
    Returned_from("parse_target_pid") =>
        LET x == Args.target_id
            rest == SubSeq(x, 5, Len(x)) IN
        /\ \A n \in PidValues : x = <<"p", "i", "d", ":">> \o fmt_u32(n) => Result = Some(n)
        /\ (Len(x) < 4 \/ SubSeq(x, 1, 4) # <<"p", "i", "d", ":">>) => Result = None
        /\ ~IsNumeric(rest, {"+"}) => Result = None
        /\ Result # None => IsNumeric(rest, {"+"})

\* pid:4321 gave 4321
C12_Witness ==
    /\ Returned_from("parse_target_pid")
    /\ Args.target_id = <<"p", "i", "d", ":", "4", "3", "2", "1">> /\ Result = Some(4321)

RECURSIVE Split(_)
\* the fields of s between its colons
Split(s) ==
    IF \A i \in 1..Len(s) : s[i] # ":" THEN <<s>>
    ELSE LET k == CHOOSE i \in 1..Len(s) : s[i] = ":" /\ \A j \in 1..(i - 1) : s[j] # ":"
         IN <<SubSeq(s, 1, k - 1)>> \o Split(SubSeq(s, k + 1, Len(s)))

(* C13: parse_window_source_id gives H for a source id whose first field   *)
(* is window and whose second field is the decimal integer H, whatever     *)
(* follows the second field, and none when the first field is not window   *)
(* or the second field is missing or is not an integer.                    *)
C13_ParseWindowSourceId ==
    Returned_from("parse_window_source_id") =>
        LET x == Args.source_id
            f == Split(x) IN
        /\ \A h \in HwndValues, suffix \in SourceSuffixes :
              x = <<"w", "i", "n", "d", "o", "w", ":">> \o fmt_isize(h) \o suffix => Result = Some(h)
        /\ f[1] # <<"w", "i", "n", "d", "o", "w">> => Result = None
        /\ Len(f) < 2 => Result = None
        /\ (Len(f) >= 2 /\ ~IsNumeric(f[2], {"+", "-"})) => Result = None
        /\ Result # None => (f[1] = <<"w", "i", "n", "d", "o", "w">> /\ Len(f) >= 2 /\ IsNumeric(f[2], {"+", "-"}))

\* window:1337:0 gave 1337
C13_Witness ==
    /\ Returned_from("parse_window_source_id")
    /\ Args.source_id = <<"w", "i", "n", "d", "o", "w", ":", "1", "3", "3", "7", ":", "0">>
    /\ Result = Some(1337)

(* C14: dedupe_window_entries_by_pid returns a map whose keys are exactly  *)
(* the pids of the entries and which gives each pid the title of its first *)
(* entry in input order.                                                   *)
C14_FirstWriteWins ==
    Returned_from("dedupe_window_entries_by_pid") =>
        LET e == Args.entries IN
        /\ DOMAIN Result = {e[i].pid : i \in DOMAIN e}
        /\ \A i \in DOMAIN e : (\A j \in 1..(i - 1) : e[j].pid # e[i].pid) => Result[e[i].pid] = e[i].title

\* (100, First), (100, Second), (200, Other) gave 100 -> First, 200 -> Other
C14_Witness ==
    /\ Returned_from("dedupe_window_entries_by_pid")
    /\ Args.entries = <<[pid |-> 100, title |-> "First"], [pid |-> 100, title |-> "Second"],
                        [pid |-> 200, title |-> "Other"]>>
    /\ DOMAIN Result = {100, 200} /\ Result[100] = "First" /\ Result[200] = "Other"

\* a step on a closed queue leaves it closed, and a push_line leaves its lines as they are
C15_ClosedStep ==
    fq.closed => (fq'.closed /\ (pushed' = pushed + 1 => fq'.queue = fq.queue))

(* C15: once the Frame Queue is closed, push_line leaves the queue as it   *)
(* is: the line is dropped and nothing queued is evicted, also when the    *)
(* queue is full; and a closed queue never opens again.                    *)
C15_ClosedDropsPush == [][C15_ClosedStep]_vars

\* a full queue was closed and a line pushed afterwards: the last line
\* queued is older than the last one pushed
C15_Witness ==
    /\ fq.closed /\ popped = <<>> /\ Len(fq.queue) = capacity /\ capacity = 2
    /\ fq.queue[Len(fq.queue)] < pushed

\* what a pop_line that returns does
C16_PopStep ==
    popped' # popped =>
        LET v == popped'[Len(popped')] IN
        /\ popped' = Append(popped, v)
        /\ fq.queue # <<>> => (v = Some(Head(fq.queue)) /\ fq'.queue = Tail(fq.queue))
        /\ fq.queue = <<>> => (v = None /\ fq.closed /\ fq' = fq)
\* the lines popped are in push order (each later than the one popped before
\* it), and none is returned only by a closed empty queue, and from then on
C16_Popped ==
    /\ \A i \in 1..(Len(popped) - 1) :
          /\ popped[i] = None => popped[i + 1] = None
          /\ popped[i + 1] # None => Unwrap(popped[i]) < Unwrap(popped[i + 1])
    /\ \A i \in DOMAIN popped : popped[i] # None => Unwrap(popped[i]) \in 1..pushed
    /\ (popped # <<>> /\ popped[Len(popped)] = None) => (fq.closed /\ fq.queue = <<>>)

(* C16: pop_line returns the head of the queue, so the lines come out in   *)
(* the order of the pushes that survived eviction; it returns none only    *)
(* when the queue is closed and empty, lines queued at close are still     *)
(* returned afterwards, and on an open empty queue it does not return.     *)
C16_PopFifo == []C16_Popped /\ [][C16_PopStep]_vars

\* lines 2 and 3 survived in a queue of capacity 2, were popped in that
\* order, and the closed queue then returned none
C16_Witness ==
    /\ capacity = 2 /\ pushed = 3
    /\ popped = <<Some(2), Some(3), None>> /\ fq.closed

\* every thread has left the loop of start_frame_writer
AllExited == \A c \in Consumers : cpc[c] = "exit"

\* a closed queue has no thread parked, a second close would change nothing,
\* and a thread that left its loop got none from a closed, empty queue
C17_Closed ==
    /\ fq.closed => /\ \A c \in Consumers : cpc[c] # "wait"
                    /\ close(fq) = fq /\ notify_all(cpc) = cpc
    /\ \A c \in Consumers : cpc[c] = "exit" => (fq.closed /\ fq.queue = <<>> /\ cline[c] = None)
\* a line popped leaves its thread only by being written
C17_WriteStep ==
    \A c \in Consumers : (cline[c] # None /\ cline'[c] # cline[c]) =>
        (cline'[c] = None /\ out' = Append(out, Unwrap(cline[c])))

(* C17: after close, every thread blocked in pop_line on the empty queue   *)
(* returns none, and every thread running the frame writer's loop          *)
(* eventually leaves it, having written the lines it popped, with the      *)
(* queue empty; a second close changes nothing.                            *)
C17_CloseReleases ==
    /\ [](C17_Closed)
    /\ [][C17_WriteStep]_vars
    /\ fq.closed ~> AllExited

\* the queue was closed, the two lines pushed were both written, and both
\* threads have left their loop
C17_Witness ==
    /\ AllExited /\ fq.closed /\ pushed = 2 /\ capacity = 2 /\ Len(out) = 2

\* the worker of session s takes one frame of 960 samples off pending
Drains(s) == wpc[s] = "drain" /\ wl'[s].pending = wl[s].pending - FRAME_SIZE * TARGET_CHANNELS
\* the step appends to the binary stream a frame of session s numbered k, and
\* nothing reaches the Frame Queue
ToBinary(s, k) ==
    /\ Len(out') = Len(out) + 1 /\ SubSeq(out', 1, Len(out)) = out
    /\ IsFrame(out'[Len(out')], sess[s].session_id)
    /\ out'[Len(out')].chan = "binary" /\ out'[Len(out')].sequence = k
    /\ fq' = fq
\* the step hands to push_line a text frame of session s numbered k, and
\* nothing is written to the host
ToText(s, k) ==
    /\ \E m \in {fq'.queue[i] : i \in DOMAIN fq'.queue} \cup {fq.queue[i] : i \in DOMAIN fq.queue} :
          /\ IsTextFrame(m, sess[s].session_id) /\ m.sequence = k
          /\ fq' = push_line(fq, capacity, m)
    /\ out' = out
\* the worker of session s holds a drained frame for the text path
HoldsForText(s) == wpc[s] = "text"

C18_Step ==
    \A s \in Sessions :
        \* a drained frame is written to the connection in the slot and counted,
        \* or held for the Frame Queue with nothing written and nothing counted
        /\ Drains(s) =>
              \/ /\ egress /\ slot # 0 /\ slot' = slot
                 /\ ToBinary(s, wl[s].sequence)
                 /\ wl'[s].sequence = wl[s].sequence + 1 /\ ~HoldsForText(s)'
              \/ /\ HoldsForText(s)' /\ out' = out /\ fq' = fq
                 /\ wl'[s].sequence = wl[s].sequence
                 /\ slot' = 0
        /\ (Drains(s) /\ (~egress \/ slot = 0)) => HoldsForText(s)'
        \* a held frame is enqueued and counted by the worker's next step
        /\ (HoldsForText(s) /\ (wpc'[s] # wpc[s] \/ wl'[s] # wl[s])) =>
              /\ ToText(s, wl[s].sequence)
              /\ wl'[s].sequence = wl[s].sequence + 1 /\ ~HoldsForText(s)'
        \* no frame is counted otherwise, and none is held otherwise
        /\ (wl'[s].sequence # wl[s].sequence /\ wpc[s] \notin {"unborn", "spawned"}) =>
              (Drains(s) \/ HoldsForText(s))
        /\ (HoldsForText(s)' /\ ~HoldsForText(s)) => Drains(s)

(* C18: every frame of 960 samples drained from pending is handed to       *)
(* exactly one path: it is written to the binary stream when a connection  *)
(* is in the slot and the write succeeds, and is otherwise enqueued on the *)
(* Frame Queue as a text frame, never both and never neither; with no      *)
(* binary slot or an empty slot every frame goes to the text path.         *)
C18_OnePath == [][C18_Step]_vars

\* one session dispatched two frames, one on each path
C18_Witness ==
    \E s \in Sessions : \E b \in DOMAIN out : \E t \in AllFrames :
        /\ IsFrame(out[b], s) /\ out[b].chan = "binary"
        /\ IsTextFrame(t, s) /\ t.sequence # out[b].sequence
        /\ wl[s].sequence = 2

\* the acceptor stores a newly accepted connection in the slot
StoresAccepted == apc = "run" /\ nconn' = nconn + 1 /\ slot' = nconn'

C19_Step ==
    /\ \A s \in Sessions :
        \* the write to the connection failed: the slot is emptied and the
        \* frame is held for the text path
        /\ (Drains(s) /\ slot # 0 /\ HoldsForText(s)') => (slot' = 0 /\ out' = out)
        \* the held frame goes to the Frame Queue with its own number
        /\ (HoldsForText(s) /\ wpc'[s] # wpc[s]) =>
              (ToText(s, wl[s].sequence) /\ wl'[s].sequence = wl[s].sequence + 1)
        \* with the slot empty every frame is held for the text path
        /\ (Drains(s) /\ slot = 0) => (HoldsForText(s)' /\ slot' = 0)
        \* a frame written to the binary stream goes to the connection in the slot
        /\ (Drains(s) /\ ~HoldsForText(s)') =>
              (slot # 0 /\ ToBinary(s, wl[s].sequence) /\ out'[Len(out')].conn = slot)
    \* the slot is filled by the acceptor only, with a connection newer than
    \* every one before; it is emptied by a failed write or the acceptor's exit
    /\ (slot' # slot /\ slot' # 0) => StoresAccepted
    /\ (slot' # slot /\ slot' = 0) =>
          \/ \E s \in Sessions : Drains(s) /\ HoldsForText(s)'
          \/ apc' = "exited"

\* binary frames are written to connections in the order these were accepted
C19_ConnOrder ==
    \A i, j \in DOMAIN out :
        (i < j /\ out[i].kind = "frame" /\ out[j].kind = "frame"
               /\ out[i].chan = "binary" /\ out[j].chan = "binary") =>
            (out[i].conn <= out[j].conn /\ out[j].conn \in 1..nconn)

(* C19: when a write to the binary connection fails the slot is emptied    *)
(* and the frame whose write failed is enqueued on the text path; every    *)
(* later frame is enqueued on the text path until the acceptor stores a    *)
(* newly accepted connection in the slot, and from then on frames go to    *)
(* that connection.                                                        *)
C19_FallbackUntilReconnect == [][C19_Step]_vars /\ []C19_ConnOrder

\* frame 0 went to the first connection, the write of frame 1 to it failed,
\* frame 1 went to the Frame Queue, and then a second connection was stored
C19_Witness ==
    \E s \in Sessions : \E b \in DOMAIN out : \E t \in AllFrames :
        /\ IsFrame(out[b], s) /\ out[b].chan = "binary" /\ out[b].sequence = 0 /\ out[b].conn = 1
        /\ IsTextFrame(t, s) /\ t.sequence = 1
        /\ slot = 2

(* C20: once the stop flag of a running session is set while its worker is *)
(* in the packet pump, the worker acquires at most one more packet before  *)
(* it observes the flag and ends; it does not go on acquiring further      *)
(* packets while the flag is set.                                          *)
C20_AtMostOnePacketAfterStop == \A s \in Sessions : wl[s].after_stop <= 1

\* main, lines 1147-1160 and 1176-1178: the guard of state.lock() lives for
\* the whole of handle_audio_capture_start, handle_audio_capture_stop and the
\* cleanup's stop_capture_session, the join of line 906 included
StateLockHeld == dpc \in {"stop_join", "start_join", "start_target", "cleanup_join"}
\* the mutexes a thread holds between its steps: the writer and the workers
\* take the stdout, slot and queue mutexes within one step, and pop_line's
\* wait gives the queue mutex back
LocksHeld(thread) == IF thread = "main" /\ StateLockHeld THEN {"state"} ELSE {}
\* the blocking call a thread is in: main joining a capture worker, the frame
\* writer parked in pop_line on the open, empty queue
InBlockingCall(thread) ==
    \/ thread = "main" /\ dpc \in {"stop_join", "start_join", "cleanup_join"}
    \/ thread = "writer" /\ wrpc = "pop" /\ ~pop_line_returns(fq)

(* C21: no thread holds a mutex (session state, binary slot, text channel, *)
(* Frame Queue state) while it is inside a blocking call such as joining   *)
(* the capture worker; waiting on the queue's condvar releases its mutex.  *)
C21_NoLockAcrossBlocking ==
    \A thread \in {"main", "writer"} : InBlockingCall(thread) => LocksHeld(thread) = {}

\* an audio_capture.start that got past the parsing of its params is about
\* to be answered, its params and what the OS said still at hand
StartHandled == dpc = "respond" /\ req.method = "audio_capture.start" /\ IsSome(req.params)
Given == Unwrap(req.params)
Str_excl7 == <<"e", "x", "c", "l", ":", "p", "i", "d", ":", "7">>
Str_pid7 == <<"p", "i", "d", ":", "7">>
\* the target id a window sourceId resolves to
SourceTarget(r) == IF r.win.pid = 7 THEN Str_pid7 ELSE Str_pid42

\* the target the handler derives from the params
C22_Derivation ==
    StartHandled =>
        LET p == Given.parsed IN
        /\ p.exclude_pid = Some(7) =>
              /\ result.ok /\ result.mode = "exclude" /\ result.targetId = Str_excl7
              /\ sess[result.sessionId].target_pid = 7
        /\ (p.exclude_pid = None /\ p.app_audio_target_id = Some(Str_notpid)) => ~result.ok
        /\ (p.exclude_pid = None /\ p.app_audio_target_id = Some(Str_pid42)) =>
              /\ result.ok <=> 42 \in Given.pids
              /\ result.ok => (result.targetId = Str_pid42 /\ result.mode = "include"
                               /\ sess[result.sessionId].target_pid = 42)
        /\ (p.exclude_pid = None /\ p.app_audio_target_id = None) =>
              /\ result.ok <=> (SourceResolves(Given) /\ Given.win.pid \in Given.pids)
              /\ result.ok => (result.targetId = SourceTarget(Given) /\ result.mode = "include"
                               /\ sess[result.sessionId].target_pid = Given.win.pid)
        /\ result.ok =>
              /\ capture_session = result.sessionId
              /\ wpc[result.sessionId] # "unborn"
              /\ sess[result.sessionId].session_id = result.sessionId
              /\ sess[result.sessionId].target_id = result.targetId
              /\ sess[result.sessionId].exclude <=> result.mode = "exclude"
\* what a session's descriptor, frames and ended event carry
C22_Carried ==
    /\ \A m \in AllFrames : m.targetId = sess[m.sessionId].target_id
    /\ \A i \in DOMAIN out :
          /\ out[i].kind = "ended" => out[i].targetId = sess[out[i].sessionId].target_id
          /\ (IsStartResponse(out[i]) /\ out[i].ok) =>
                /\ out[i].result.targetId = sess[out[i].result.sessionId].target_id
                /\ sess[out[i].result.sessionId].exclude <=> out[i].result.mode = "exclude"
                /\ out[i].result.mode \in {"include", "exclude"}

(* C22: audio_capture.start with excludePid starts an exclude-mode session *)
(* on that pid with target id excl:pid:<N>, whatever appAudioTargetId and  *)
(* sourceId say and whatever the enumeration lists; otherwise an explicit  *)
(* appAudioTargetId wins over the pid the sourceId resolves to. The        *)
(* sessionId, targetId and mode of the descriptor are those given to the   *)
(* worker and carried by its frames and its ended event.                   *)
C22_StartTarget == C22_Derivation /\ C22_Carried

\* appAudioTargetId pid:42 was given with a sourceId that resolves to
\* process 7; the start was accepted and the session has dispatched a frame
C22_Witness ==
    /\ StartHandled /\ result.ok
    /\ Given.parsed.exclude_pid = None
    /\ Given.parsed.app_audio_target_id = Some(Str_pid42)
    /\ SourceResolves(Given) /\ Given.win.pid = 7
    /\ \E m \in AllFrames : m.sessionId = result.sessionId

\* the worker of session s leaves the packet pump
LeavesPump(s) == wpc[s] \in {"top", "poll", "drain"} /\ wpc'[s] = "end"
\* the reason its closure returns
PumpReason(s) == Unwrap(wl'[s].reason)

C23_Step ==
    \A s \in Sessions : LeavesPump(s) =>
        /\ PumpReason(s).ok /\ wl'[s].outcome = None
        \* the stop flag is read at the top of the loop and nowhere else
        /\ PumpReason(s).value = "capture_stopped" <=> wpc[s] = "top"
        /\ wpc[s] = "top" => stop_flag[s]
        \* the liveness poll needs the handle, which only include mode opens
        /\ PumpReason(s).value = "app_exited" =>
              (wpc[s] = "poll" /\ wl[s].handle /\ ~sess[s].exclude)
        \* the packet-size query and the buffer acquisition
        /\ PumpReason(s).value \in {"capture_stopped", "app_exited", "device_lost", "capture_error"}
        /\ PumpReason(s).value \in {"device_lost", "capture_error"} => wpc[s] \in {"poll", "drain"}
        /\ PumpReason(s).value = "capture_error" => wl'[s].pending = wl[s].pending
\* the ended events written
C23_Ended ==
    \A i \in DOMAIN out : out[i].kind = "ended" =>
        /\ out[i].reason \in {"capture_stopped", "app_exited", "device_lost", "capture_error"}
        /\ out[i].error # None => out[i].reason = "capture_error"
        /\ sess[out[i].sessionId].exclude => out[i].reason # "app_exited"
        /\ out[i].reason = "capture_stopped" => stop_flag[out[i].sessionId]

InitFailed(s) ==
    /\ wpc[s] \in {"end", "done"}
    /\ IsSome(wl[s].outcome) \/ (IsSome(wl[s].reason) /\ ~Unwrap(wl[s].reason).ok)
\* the failure texts of activation, Initialize, GetService and Start
C24_Texts == {"ActivateAudioInterfaceAsync timed out", "Failed to initialize loopback client",
              "Failed to get IAudioCaptureClient", "Failed to start audio client"}

C24_Failed ==
    \A s \in Sessions : InitFailed(s) =>
        /\ wl[s].sequence = 0 /\ wl[s].pending = 0 /\ dispatched[s] = <<>>
        /\ \A m \in AllFrames : m.sessionId # s
        /\ \A i \in DOMAIN out : IsEnded(out[i], s) =>
              IF IsSome(wl[s].outcome)
              THEN out[i].reason = "app_exited" /\ out[i].error = None /\ ~sess[s].exclude
              ELSE /\ out[i].reason = "capture_error"
                   /\ out[i].error = Some(Unwrap(wl[s].reason).message)
                   /\ Unwrap(wl[s].reason).message \in C24_Texts
C24_Step ==
    \A s \in Sessions :
        \* a worker leaves its initialisation for the pump or for its end
        /\ (wpc[s] = "spawned" /\ wpc'[s] # "spawned") =>
              /\ wpc'[s] \in {"top", "end"}
              /\ wpc'[s] = "end" <=> InitFailed(s)'
              /\ IsSome(wl'[s].outcome) => (~wl'[s].com /\ ~wl'[s].handle)
        \* after a failure the next thing it does is the ended event
        /\ (InitFailed(s) /\ wpc[s] = "end" /\ wpc'[s] # "end") =>
              (wpc'[s] = "done" /\ Len(out') = Len(out) + 1 /\ IsEnded(out'[Len(out')], s))

(* C24: a session whose initialisation fails dispatches no frame and ends  *)
(* at once: when the liveness handle cannot be opened (include mode) it    *)
(* ends with app_exited and no error field, before activation; when        *)
(* activation, client initialise, the capture service or the start of the  *)
(* client fails it ends with capture_error and the failure text in the     *)
(* error field.                                                            *)
C24_InitFailure == []C24_Failed /\ [][C24_Step]_vars

\* one session ended on the activation timeout, another on the handle
C24_Witness ==
    /\ \E i \in DOMAIN out : /\ out[i].kind = "ended" /\ out[i].reason = "capture_error"
                             /\ out[i].error = Some("ActivateAudioInterfaceAsync timed out")
    /\ \E s \in Sessions : IsSome(wl[s].outcome) /\ EndedAt(s) # {}

RECURSIVE Concat(_)
\* the sequences of a sequence joined
Concat(ss) == IF ss = <<>> THEN <<>> ELSE Head(ss) \o Concat(Tail(ss))

C25_Exact ==
    rf # None =>
        /\ Concat(rf.frames) \o rf.pending = rf.received
        /\ \A i \in DOMAIN rf.frames : Len(rf.frames[i]) = 960
        /\ rf.pc \in {"packet", "ended"} => Len(rf.pending) < 960
\* the frames of an ended session are those dispatched before its end
C25_EndStep == (rf # None /\ rf.pc = "ended") => rf' = rf

(* C25: after each packet has been processed pending holds fewer than 960  *)
(* samples, and the frames dispatched so far followed by pending are the   *)
(* samples of the packets received so far, a silent packet counting as     *)
(* zeros: nothing dropped, duplicated, padded or reordered, and a partial  *)
(* frame left at the end of the session is never emitted.                  *)
C25_Reframing == []C25_Exact /\ [][C25_EndStep]_vars

\* packets of 500, 1920 (silent) and 500 samples: three frames, the second
\* all zeros but its first 40 samples, and 40 samples left at the end
C25_Witness ==
    /\ rf # None /\ rf.pc = "ended" /\ Len(rf.frames) = 3 /\ Len(rf.pending) = 40
    /\ rf.frames[1][1] = 1 /\ rf.frames[1][960] = 0
    /\ rf.frames[2][960] = 0 /\ rf.frames[3][1] = 0 /\ rf.frames[3][960] = 2880

\* the step is one of a capture worker
WorkerStep == \E s \in Sessions : wpc'[s] # wpc[s] \/ wl'[s] # wl[s]
\* the step writes a binary frame
WritesBinary ==
    /\ Len(out') = Len(out) + 1
    /\ out'[Len(out')].kind = "frame" /\ out'[Len(out')].chan = "binary"

\* the slot is empty or holds the connection accepted last
C26_Slot == slot \in {0, nconn}
C26_Step ==
    \* an accepted connection goes into the slot, whatever the slot held
    /\ nconn' # nconn => (nconn' = nconn + 1 /\ slot' = nconn' /\ ~WorkerStep)
    \* nothing but an accept puts a connection into the slot
    /\ (slot' # slot /\ slot' # 0) => nconn' = nconn + 1
    \* a capture worker leaves the slot alone or empties it
    /\ WorkerStep => slot' \in {slot, 0}
    \* a binary frame goes to the connection in the slot
    /\ WritesBinary => (slot # 0 /\ out'[Len(out')].conn = slot /\ slot' = slot /\ WorkerStep)

C27_EndedIsLast ==
    \A s \in Sessions : \A i \in EndedAt(s) : \A j \in DOMAIN out :
        (j > i /\ out[j].chan = "text" /\ out[j].kind \in {"frame", "ended"}) => out[j].sessionId # s

\* the response to the start of session s, written or about to be
StartAnswer(s) ==
    {out[i].result : i \in {j \in DOMAIN out : IsStartResponse(out[j]) /\ out[j].ok
                                                /\ out[j].result.sessionId = s}}
        \cup (IF dpc = "respond" /\ req.method = "audio_capture.start" /\ result.ok
                 /\ result.sessionId = s THEN {result} ELSE {})
\* the texts audio_capture.start fails with
C28_StartErrors ==
    {<<"invalid params: ", "serde error">>,
     <<"No app audio target provided and source mapping failed">>,
     <<"Invalid app audio target id">>,
     <<"Target process with pid ", 42, " is not available">>}

C28_Answered ==
    \* every session started has its success descriptor, whatever became of
    \* its worker
    /\ \A s \in Sessions : wpc[s] # "unborn" => Cardinality(StartAnswer(s)) = 1
    \* a start fails only on its own checks
    /\ \A i \in DOMAIN out : (IsStartResponse(out[i]) /\ ~out[i].ok) =>
          out[i].result.message \in C28_StartErrors
C28_Step ==
    \* the session is installed and the handler returns in the step that
    \* spawns the worker
    /\ next_sid' # next_sid =>
          /\ next_sid' = next_sid + 1 /\ capture_session' = next_sid'
          /\ wpc'[next_sid'] = "spawned"
          /\ dpc' = "respond" /\ result'.ok /\ result'.sessionId = next_sid'
    \* the response to a start waits for no worker
    /\ (dpc = "respond" /\ req.method = "audio_capture.start") =>
          ENABLED (dpc' = "read" /\ DRespond)

(* C28: an audio_capture.start that passes its checks always returns a     *)
(* success descriptor and installs the session record without waiting for  *)
(* the worker's initialisation: a failure of activation or of the client's *)
(* initialisation never turns the start response into a failure and is     *)
(* reported only by the session's audio_capture.ended event.               *)
C28_StartNeverWaits == []C28_Answered /\ [][C28_Step]_vars

\* the start of session 1 was answered with its descriptor while the worker
\* had not begun to initialise, and activation then timed out
C28_Witness ==
    \E i, j \in DOMAIN out :
        /\ i < j /\ IsStartResponse(out[i]) /\ out[i].ok /\ out[i].result.sessionId = 1
        /\ IsEnded(out[j], 1) /\ out[j].reason = "capture_error"
        /\ out[j].error = Some("ActivateAudioInterfaceAsync timed out")

\* what the worker of each session holds, by where it is
C29_Held ==
    \A s \in Sessions :
        \* before its initialisation and after its ended event: nothing
        /\ wpc[s] \in {"unborn", "spawned", "done"} => (~wl[s].handle /\ ~wl[s].com)
        \* in the pump, and on its way out of it or of a failed initialise
        \* step: the handle exactly in include mode
        /\ (wpc[s] \in {"top", "poll", "drain", "text"} \/ (wpc[s] = "end" /\ wl[s].outcome = None)) =>
              (wl[s].handle <=> ~sess[s].exclude)
        \* the handle could not be opened: nothing was opened or entered
        /\ IsSome(wl[s].outcome) => (~wl[s].handle /\ ~wl[s].com /\ ~sess[s].exclude)
        \* no ended event while anything is held
        /\ EndedAt(s) # {} => (~wl[s].handle /\ ~wl[s].com)
C29_Step ==
    \A s \in Sessions :
        \* opened and entered during initialisation only
        /\ ((~wl[s].handle /\ wl'[s].handle) \/ (~wl[s].com /\ wl'[s].com)) => wpc[s] = "spawned"
        \* closed and left in the one step that ends the worker, whose last
        \* act is the ended event
        /\ ((wl[s].handle /\ ~wl'[s].handle) \/ (wl[s].com /\ ~wl'[s].com)) =>
              /\ wpc[s] = "end" /\ wpc'[s] = "done"
              /\ ~wl'[s].handle /\ ~wl'[s].com
              /\ Len(out') = Len(out) + 1 /\ IsEnded(out'[Len(out')], s)
        /\ (wpc[s] = "end" /\ wpc'[s] # "end") => (wpc'[s] = "done" /\ ~wl'[s].handle /\ ~wl'[s].com)
        \* a worker that ended stays ended
        /\ wpc[s] = "done" => wpc'[s] = "done"

(* C29: on every exit path of the capture worker (stop, target exit,      *)
(* device lost, capture error, initialise failure) the liveness handle, if *)
(* it was opened, is closed exactly once, and the COM apartment is left    *)
(* exactly once if and only if this thread entered it, both before the     *)
(* ended event is emitted; the exit taken when the liveness handle cannot  *)
(* be opened never enters the apartment.                                   *)
C29_Released == []C29_Held /\ [][C29_Step]_vars

\* an include-mode worker, which had opened its handle, failed to
\* initialise and has ended with nothing held; another session, whose handle
\* could not be opened, has ended too
C29_Witness ==
    \E s, t \in Sessions :
        /\ wpc[s] = "done" /\ ~sess[s].exclude /\ ~wl[s].handle /\ ~wl[s].com
        /\ \E i \in EndedAt(s) : out[i].error # None
        /\ wpc[t] = "done" /\ IsSome(wl[t].outcome) /\ EndedAt(t) # {}

\* a failed audio_capture.start is about to be answered
FailedStart == dpc = "respond" /\ req.method = "audio_capture.start" /\ ~result.ok
\* it failed on its params, before stop_capture_session
FailedOnParams == result.message = <<"invalid params: ", "serde error">>

C30_AtRespond ==
    /\ (FailedStart /\ ~FailedOnParams) =>
          \* the target was refused: nothing is active, nothing runs, and the
          \* session that was active has its ended event
          /\ IsSome(req.params)
          /\ capture_session = 0
          /\ \A s \in Sessions : ~Alive(s)
          /\ active # 0 => EndedAt(active) # {}
    /\ (FailedStart /\ FailedOnParams) => (req.params = None /\ active = 0)
    /\ \A j \in DOMAIN out : (IsStartResponse(out[j]) /\ ~out[j].ok) =>
          /\ out[j].stopped # 0 => \E i \in 1..(j - 1) : IsEnded(out[i], out[j].stopped)
          /\ out[j].result.message = <<"invalid params: ", "serde error">> => out[j].stopped = 0
C30_Step ==
    \* a start whose params do not parse touches no session
    /\ (FailedStart /\ FailedOnParams)' =>
          (capture_session' = capture_session /\ stop_flag' = stop_flag)
    \* the answer to a refused start changes no session either
    /\ (FailedStart /\ dpc' = "read") => (capture_session' = capture_session /\ wpc' = wpc)

(* C30: audio_capture.start stops and joins the active session before it   *)
(* validates the target: a start that then fails (no target, invalid       *)
(* target id, pid not in the enumeration) leaves no active session, the    *)
(* previous session's ended event written before the failed response; only *)
(* a start rejected before that point (params that do not parse) leaves    *)
(* the previous session running.                                           *)
C30_StopBeforeValidate == []C30_AtRespond /\ [][C30_Step]_vars

\* session 1 was running when a second start came whose target was refused:
\* session 1 has ended, the failure is answered, nothing is active
C30_Witness ==
    /\ capture_session = 0 /\ wpc[1] = "done" /\ next_sid = 1
    /\ \E i, j \in DOMAIN out :
          /\ i < j /\ IsEnded(out[i], 1) /\ out[i].reason = "capture_stopped"
          /\ IsStartResponse(out[j]) /\ ~out[j].ok /\ out[j].stopped = 1

(* ------------------------------- C31 ---------------------------------- *)

\* the thread is over (a session not started has no thread)
Terminated(thread) ==
    \/ thread = MainThread /\ dpc = "exit"
    \/ thread = WriterThread /\ wrpc = "exit"
    \/ thread = AcceptorThread /\ apc \in {"exited", "none"}
    \/ \E s \in Sessions : thread = WorkerThread(s) /\ wpc[s] \in {"unborn", "done"}

\* the mutex the thread is about to lock
WantsMutex(thread) ==
    IF thread = MainThread
    THEN CASE dpc = "lock_state" -> Some("state")
           [] dpc = "respond_lock" -> Some("stdout")
           [] dpc = "close_lock" -> Some("queue")
           [] OTHER -> None
    ELSE IF thread = WriterThread
    THEN CASE wrpc = "pop" /\ pop_line_returns(fq) -> Some("queue")
           [] wrpc = "write_lock" -> Some("stdout")
           [] OTHER -> None
    ELSE IF thread = AcceptorThread
    THEN IF apc = "store_lock" \/ (apc = "run" /\ astop) THEN Some("slot") ELSE None
    ELSE LET s == thread[2] IN
         CASE wpc[s] = "slot_lock" -> Some("slot")
           [] wpc[s] = "queue_lock" -> Some("queue")
           [] wpc[s] = "end_lock" -> Some(ended_mutex)
           [] OTHER -> None

\* the thread whose end the thread waits for in a join
Joins(thread) ==
    IF thread # MainThread THEN None
    ELSE CASE dpc = "join" -> Some(WorkerThread(active))
           [] dpc = "join_acceptor" -> Some(AcceptorThread)
           [] dpc = "join_writer" -> Some(WriterThread)
           [] OTHER -> None

\* the thread that has to act before the thread can go on
BlockedOn(thread) ==
    (IF IsSome(WantsMutex(thread)) /\ mutex[Unwrap(WantsMutex(thread))] # None
     THEN {mutex[Unwrap(WantsMutex(thread))]} ELSE {})
    \cup
    (IF IsSome(Joins(thread)) /\ ~Terminated(Unwrap(Joins(thread)))
     THEN {Unwrap(Joins(thread))} ELSE {})

\* the thread has a step of its own to take
CanRun(thread) ==
    \/ thread = MainThread /\ ENABLED (LMain \/ LRequest \/ LEof)
    \/ thread = WriterThread /\ ENABLED LWriter
    \/ thread = AcceptorThread /\ ENABLED (LAcceptor \/ LAccept)
    \/ \E s \in Sessions : thread = WorkerThread(s) /\ ENABLED (LWorker(s) \/ LWLost(s) \/ LWFrame(s))

RECURSIVE Proceeds(_, _)
\* the thread can run, or the thread it waits for can, within n waits
Proceeds(thread, n) ==
    \/ CanRun(thread)
    \/ /\ n > 0
       /\ \E other \in BlockedOn(thread) : Proceeds(other, n - 1)

\* the mutexes a thread holds
Holds(thread) == {m \in Mutexes : mutex[m] = thread}

\* no thread waits in a circle of threads, or for a thread that is over or
\* parked: whoever it waits for can run
C31_NoDeadlock ==
    \A thread \in Threads : BlockedOn(thread) # {} => Proceeds(thread, Cardinality(Threads))

\* while main joins a capture worker under the state mutex, the worker never
\* wants that mutex, and each of the three mutexes it locks is free or held
\* by a thread that holds nothing else and has its next step to take
C31_WorkerLocks ==
    dpc = "join" =>
       /\ Holds(MainThread) = {"state"}
       /\ WantsMutex(WorkerThread(active)) # Some("state")
       /\ \A m \in {"stdout", "slot", "queue"} :
             mutex[m] # None /\ mutex[m] # WorkerThread(active)
                => Holds(mutex[m]) = {m} /\ CanRun(mutex[m])

\* request n has its response on the text channel
Answered(n) == \E i \in DOMAIN out : out[i].kind = "response" /\ out[i].request = n

\* every request main has read is answered
C31_Returns == \A n \in 1..MaxThreadRequests : (req.n = n) ~> Answered(n)

\* C31: no reachable state is a deadlock among the dispatcher, the capture
\* workers, the text frame writer and the binary acceptor; while the
\* dispatcher joins a worker under the state mutex the worker can take the
\* stdout, slot and queue mutexes; and with every thread that can go on going
\* on, every audio_capture.stop and audio_capture.start is answered.
C31_NoDeadlockAndReturns == [](C31_NoDeadlock /\ C31_WorkerLocks) /\ C31_Returns

\* an audio_capture.start joined the worker of session 1, which had dispatched
\* a frame and then wrote its ended event as stopped, and was answered
C31_Witness ==
    /\ dispatched[1] # <<>>
    /\ \E i, j \in DOMAIN out :
          /\ i < j /\ IsEnded(out[i], 1) /\ out[i].reason = CaptureStopped
          /\ IsStartResponse(out[j]) /\ out[j].stopped = 1 /\ out[j].ok

(* ------------------------------- C32 ---------------------------------- *)

\* main is past the end of its input
Eof == req.method = "eof"

\* the shutdown step by step: the acceptor is over and the slot empty before
\* main turns to the session; no session is installed and no worker runs,
\* each one started having written its ended event, before main turns to the
\* queue; the queue is closed by main only, after that; and main is over with
\* every thread over, the queue closed and empty, nothing popped and unwritten
\* and no mutex held
C32_Order ==
    /\ Eof /\ dpc # "join_acceptor" /\ egress => apc = "exited" /\ slot = 0
    /\ Eof /\ dpc \in {"unlock_state", "close_lock", "close", "join_writer", "exit"} =>
          /\ capture_session = 0
          /\ \A s \in Sessions : ~Alive(s) /\ (wpc[s] = "done" => EndedAt(s) # {})
    /\ fq.closed => Eof /\ dpc \in {"join_writer", "exit"}
    /\ dpc = "exit" =>
          /\ \A thread \in Threads : Terminated(thread)
          /\ fq.closed /\ fq.queue = <<>> /\ wline = None
          /\ \A m \in Mutexes : mutex[m] = None

\* the close leaves the queued lines queued; from then on a line leaves the
\* queue only as the line pop_line hands the writer, and the writer gives up
\* a line only by writing it
C32_Step ==
    /\ ~fq.closed /\ fq'.closed => fq'.queue = fq.queue
    /\ fq.closed /\ fq'.queue # fq.queue =>
          fq.queue # <<>> /\ fq'.queue = Tail(fq.queue) /\ wline' = Some(Head(fq.queue))
    /\ wline # None /\ wline' # wline => wline' = None /\ out' = Append(out, Unwrap(wline))

\* once the input has ended main returns
C32_Terminates == Eof ~> dpc = "exit"

\* C32: at the end of input main stops and joins the acceptor (the slot is
\* emptied), then stops and joins the active session (its ended event is
\* written), then closes the Frame Queue and joins the writer; every text
\* frame in the queue at the close is written before the writer exits; and
\* the process terminates.
C32_Shutdown == []C32_Order /\ [][C32_Step]_vars /\ C32_Terminates

\* C32 as stated: every frame a worker enqueued before the close (every frame
\* it dispatched that the binary stream did not take) is on the text channel
\* when main is over
C32_EveryEnqueuedWritten ==
    dpc = "exit" =>
       \A s \in Sessions : \A k \in DOMAIN dispatched[s] :
          \E i \in DOMAIN out : IsFrame(out[i], s) /\ out[i].sequence = dispatched[s][k]

\* main is over after a shutdown that joined the acceptor and stopped
\* session 1 (no request had), whose text frame the writer wrote after the
\* worker's ended event
C32_Witness ==
    /\ dpc = "exit" /\ egress
    /\ \E i, j \in DOMAIN out :
          /\ i < j /\ IsEnded(out[i], 1) /\ out[i].reason = CaptureStopped
          /\ IsTextFrame(out[j], 1)
    /\ \A i \in DOMAIN out : out[i].kind = "response" => out[i].stopped # 1

=============================================================================
